---- MODULE Spec2Model ----
(***************************************************************************)
(* cspell-lsp: the settings cache, the validation passes and the           *)
(* execute-command handler.  The repository holds several revisions of the *)
(* server; the variable `variant` selects the revision a behaviour runs:   *)
(*   "current"     src/src/main.ts lines 1-261                             *)
(*   "threeCmd"    src/src/main.ts lines 262-493                           *)
(*   "addToConfig" src/unnamed/part_001                                    *)
(*   "addToDict"   packages/_server/src/codeActions.mts lines 456-643      *)
(*   "handler"     packages/_server/src/codeActions.mts lines 54-87        *)
(* The server runs on one event loop: a handler runs to its next await     *)
(* before anything else runs.  `running` names the command that holds the  *)
(* thread between two statements of one synchronous stretch (0: nobody).   *)
(***************************************************************************)
EXTENDS Integers, Sequences, FiniteSets, TLC

\* ---------------------------------------------------------------- bounds
MaxEvents == 3      \* notifications and requests the editor sends
MaxCmds == 2        \* execute-command requests in flight at once
MaxTasks == 2       \* settings resolutions and validation passes in flight at once

\* ------------------------------------------------------------ the universe
Uris == {"d1", "d2"}
UriOrder == <<"d1", "d2">>
Words == {"w1", "w2"}
TaskIds == 1..MaxTasks
CmdIds == 1..MaxCmds
Variants == {"current", "threeCmd", "addToConfig", "addToDict", "handler"}

VARIABLES
    variant,              \* revision of the server
    optConfig,            \* options.config / dictionaryPath: TRUE when the path was given
    jsonPath,             \* the path of the config file (given, found or mainSettingsPath) ends in ".json"
    documents,            \* uris of the open documents (TextDocuments)
    version,              \* version[d]: TextDocument.version
    settingsCache,        \* settingsCache[d]: the Map entry for uri d
    settingsVersion,      \* dependencies.getSettingsVersion (handler revision)
    cachedSettingsFiles,  \* what the cspell config loader has cached
    configFile,           \* the config file on disk
    fileGen,              \* number of persisted mutations so far
    defaultSettings,      \* initializationOptions.defaultSettings
    userSettings,         \* userSettings / userWords kept in memory by the older revisions
    dictFile,             \* the custom dictionary file: the words appended to it
    refreshes,            \* uris waiting for refreshDictionaryCache to finish
    appends,              \* fs.appendFile calls not yet completed
    tasks,                \* getSettings / validateTextDocument activations
    cmds,                 \* onExecuteCommand activations
    running,              \* command holding the thread, 0 when none
    published,            \* diagnostics last sent per uri
    nextComp,             \* number of resolver invocations so far
    lastComp,             \* lastComp[d]: the computation the last lookup of d returned, 0 before any
    sinceLookup,          \* sinceLookup[d]: d's version changed, the generation moved or the cache was cleared since the last lookup of d
    valid,                \* valid[d]: an entry was stored and no such event happened since
    added,                \* <<attribute, word>> pairs whose command returned success
    events,               \* editor notifications and requests so far
    log,                  \* log[d]: the cache lookup for d made by the step just taken
    returned,             \* the reply sent by the step just taken
    sent,                 \* the diagnostics sent by the step just taken
    call                  \* one call of a function of the server taken alone: what it was given and what it gave

setup == <<variant, optConfig, jsonPath, call>>
docs == <<documents, version>>
disk == <<configFile, fileGen, dictFile, refreshes, appends>>
memory == <<defaultSettings, userSettings>>
lookups == <<tasks, nextComp, lastComp, sinceLookup, valid, log>>
vars == <<setup, docs, settingsCache, settingsVersion, cachedSettingsFiles, disk, memory,
          lookups, cmds, running, published, added, events, returned, sent>>

\* --------------------------------------------------------------- values
NoWords == [userWords |-> <<>>, words |-> <<>>]
NoUser == [userWords |-> <<>>, words |-> <<>>, shared |-> FALSE]
NoSettings == [gen |-> -1, known |-> {}]
NoEntry == [has |-> FALSE, docVersion |-> 0, settingsVersion |-> 0, comp |-> 0, value |-> NoSettings]
EmptyCache == [d \in Uris |-> NoEntry]
IdleTask == [pc |-> "idle", uri |-> "d1", comp |-> 0, settings |-> NoSettings, snap |-> 0,
             origin |-> "none", waiter |-> 0, word |-> "", since |-> 0]
NoCall == [fn |-> "none", args |-> <<>>, out |-> <<>>]
NoFile == [exists |-> FALSE, userWords |-> <<>>, words |-> <<>>]
\* A config file the server finds when it starts
InitialFile == [exists |-> TRUE, userWords |-> <<"w0">>, words |-> <<>>]
NoCached == [has |-> FALSE, gen |-> -1, file |-> NoFile]
NoPublished == [has |-> FALSE, ver |-> 0, gen |-> -1]
NoLog == [seen |-> FALSE, origin |-> "none", hit |-> FALSE, comp |-> 0, repeat |-> FALSE,
          prevComp |-> 0, prevPending |-> FALSE, validAny |-> FALSE, validClear |-> FALSE]
NoLogs == [d \in Uris |-> NoLog]
IdleCmd == [pc |-> "idle", command |-> "none", uri |-> "d1", word |-> "",
            docOpen |-> FALSE, hasPath |-> FALSE, aliased |-> FALSE,
            currentSettings |-> NoWords, order |-> <<>>]
NoReturn == [command |-> "none", docOpen |-> FALSE, result |-> "none", message |-> "none",
             order |-> <<>>]
NoSent == [has |-> FALSE, uri |-> "d1", ver |-> 0, gen |-> -1, origin |-> "none", over |-> 0,
           word |-> "", since |-> 0, known |-> {}]
Invalid == [any |-> FALSE, clear |-> FALSE]

Range(s) == {s[i] : i \in 1..Len(s)}

FreeSlots(tk) == {t \in TaskIds : tk[t].pc = "idle"}
FreeSlot(tk) == CHOOSE t \in FreeSlots(tk) : \A u \in FreeSlots(tk) : t <= u
\* The pending activations once activation t has settled, in the order they started
Settle(tk, t) ==
    [i \in TaskIds |-> IF i < t THEN tk[i] ELSE IF i < MaxTasks THEN tk[i + 1] ELSE IdleTask]

RECURSIVE SeqFilter(_, _)
SeqFilter(s, S) ==
    IF s = <<>> THEN <<>>
    ELSE IF Head(s) \in S THEN <<Head(s)>> \o SeqFilter(Tail(s), S)
    ELSE SeqFilter(Tail(s), S)

\* documents.all() cut to its first document
FirstDocument ==
    IF SeqFilter(UriOrder, documents) = <<>> THEN <<>>
    ELSE <<Head(SeqFilter(UriOrder, documents))>>

\* main.ts:154 documents.all()
AllDocuments == SeqFilter(UriOrder, documents)

\* ------------------------------------------------------------ the revisions
Servers == {"current", "threeCmd", "addToConfig", "addToDict"}
Server == variant \in Servers

\* executeCommandProvider.commands / the names the handler tests for
COMMANDS ==
    CASE variant = "current" -> {"AddToUserWordsConfig", "AddToWorkspaceWordsConfig"}
      [] variant = "threeCmd" -> {"AddToUserWordsConfig", "AddToWorkspaceWordsConfig",
                                  "AddToCustomDictionary"}
      [] variant = "addToConfig" -> {"AddToConfig"}
      [] variant = "addToDict" -> {"AddToDictionary"}
      [] OTHER -> {}

\* The command names a client sends: the ones the planner of the revision emits
\* (codeActions.ts:71,81,98; codeActions.mts:331) and one of another revision.
Requests ==
    IF variant \in {"current", "threeCmd"}
    THEN {"AddToUserWordsConfig", "AddToWorkspaceWordsConfig", "AddToCustomDictionary"}
    ELSE {"AddToConfig", "AddToDictionary"}

ConfigCommands == {"AddToUserWordsConfig", "AddToWorkspaceWordsConfig", "AddToConfig"}

\* main.ts:233 const attribute = command == "AddToUserWordsConfig" ? "userWords" : "words"
Attribute(command) == IF command = "AddToWorkspaceWordsConfig" THEN "words" ELSE "userWords"

\* The awaits of onExecuteCommand, had the file been read with fs.promises.readFile
AwaitPointsAsyncRead == {"searching", "searched", "awaitValidate", "validated", "modify"}

\* The pcs at which an activation of onExecuteCommand is suspended in an await:
\* main.ts:208 (searchForConfig, waiting and answered) and codeActions.mts:627
\* (validateTextDocument, waiting and settled).
AwaitPoints == {"searching", "searched", "awaitValidate", "validated"}

ThreadAt(c, pc) == IF pc \in AwaitPoints \cup {"idle"} THEN 0 ELSE c
HasThread(c) == running = ThreadAt(c, cmds[c].pc)

\* ------------------------------------------------------ the settings cache
\* main.ts:162-165: const cached = settingsCache.get(uri); if (cached) return cached
CurrentHit(cache, d) == cache[d].has

\* codeActions.mts:73-77: cached?.docVersion === doc.version && cached.settingsVersion === settingsVersion
HandlerHit(cache, d, ver) ==
    /\ cache[d].has
    /\ cache[d].docVersion = ver[d]
    /\ cache[d].settingsVersion = settingsVersion

CacheHit(cache, d, ver) ==
    IF variant = "handler" THEN HandlerHit(cache, d, ver) ELSE CurrentHit(cache, d)

\* A resolver invocation that has not completed
Pending(tk, k) ==
    \E t \in TaskIds : tk[t].comp = k /\ tk[t].pc \in {"resolving", "resolved", "constructing"}

\* The record of one lookup of d, taken when the lookup runs.
LookupRecord(st, cache, d, origin) ==
    [seen |-> TRUE,
     origin |-> origin,
     hit |-> CacheHit(cache, d, st.ver),
     comp |-> IF CacheHit(cache, d, st.ver) THEN cache[d].comp ELSE st.nextComp + 1,
     repeat |-> st.lastComp[d] # 0 /\ ~st.sinceLookup[d],
     prevComp |-> st.lastComp[d],
     prevPending |-> Pending(st.tasks, st.lastComp[d]),
     validAny |-> st.valid[d].any,
     validClear |-> st.valid[d].clear]

\* main.ts:168-178 and main.ts:412 fs.existsSync(mainSettingsPath): the revisions
\* that read the config file through the loader wait for that read.
ReadsFile(file) == variant = "current" \/ (variant = "threeCmd" /\ file.exists)

\* getSettingsForDocument up to its first suspension (main.ts:161-178, 404-416,
\* part_001:132-142, codeActions.mts:598-603): a hit returns the cached settings,
\* a miss calls the resolver and waits for it.  validateTextDocument
\* (main.ts:143-144) goes on to the validator with the settings.
StartLookup(st, cache, d, origin, waiter) ==
    LET t == FreeSlot(st.tasks)
        hit == CacheHit(cache, d, st.ver)
        task == IF hit
                THEN IF origin = "codeAction" THEN IdleTask
                     ELSE [pc |-> "checking", uri |-> d, comp |-> cache[d].comp,
                           settings |-> cache[d].value, snap |-> st.ver[d], origin |-> origin,
                           waiter |-> waiter, word |-> st.word, since |-> st.since]
                ELSE [pc |-> IF ReadsFile(st.file) THEN "resolving" ELSE "resolved", uri |-> d,
                      comp |-> st.nextComp + 1, settings |-> NoSettings, snap |-> 0,
                      origin |-> origin, waiter |-> waiter, word |-> st.word,
                      since |-> st.since]
    IN  [st EXCEPT !.tasks[t] = task,
                   !.log[d] = LookupRecord(st, cache, d, origin),
                   !.lastComp[d] = LookupRecord(st, cache, d, origin).comp,
                   !.sinceLookup[d] = FALSE,
                   !.nextComp = IF hit THEN st.nextComp ELSE st.nextComp + 1]

RECURSIVE StartValidations(_, _, _, _)
StartValidations(st, cache, ds, origin) ==
    IF ds = <<>> THEN st
    ELSE StartValidations(StartLookup(st, cache, Head(ds), origin, 0), cache, Tail(ds), origin)

LookupState == [tasks |-> tasks, log |-> NoLogs, lastComp |-> lastComp,
                sinceLookup |-> sinceLookup, valid |-> valid, nextComp |-> nextComp,
                ver |-> version, file |-> configFile, word |-> "", since |-> 0]

\* The passes a command starts carry its word and the number of the write they follow
For(st, c, gen) == [st EXCEPT !.word = cmds[c].word, !.since = gen]

\* The bookkeeping of an invalidating event: a version change of d ...
Touched(st, d, ver) == [st EXCEPT !.sinceLookup[d] = TRUE, !.valid[d].any = FALSE, !.ver = ver]
\* ... and a clear() or a move of the settings generation
Cleared(st) == [st EXCEPT !.sinceLookup = [d \in Uris |-> TRUE], !.valid = [d \in Uris |-> Invalid]]

SetLookup(st) ==
    /\ tasks' = st.tasks
    /\ log' = st.log
    /\ lastComp' = st.lastComp
    /\ nextComp' = st.nextComp
    /\ sinceLookup' = st.sinceLookup
    /\ valid' = st.valid

\* What codeActions.mts:605 would do as settingsCache.set(textDocument.uri, settings)
StoreAsEntry(cache, d, entry) == [cache EXCEPT ![d] = entry]

\* codeActions.mts:605 settingsCache[textDocument.uri] = settings sets a property of
\* the Map object, not an entry of the map
StoreAsProperty(cache, d, entry) == cache

\* main.ts:183, main.ts:420, part_001:145 settingsCache.set(uri, settings)
StoreInMap(cache, d, entry) == [cache EXCEPT ![d] = entry]

Store(cache, d, entry) ==
    IF variant = "addToDict" THEN StoreAsProperty(cache, d, entry) ELSE StoreInMap(cache, d, entry)

\* ----------------------------------------------------------------- Init
\* main.ts:332-339, part_001:56-63: userSettings is the first settings file found
StartupSettings(file) == [userWords |-> file.userWords, words |-> file.words, shared |-> FALSE]

\* What the first validation of a document resolves (main.ts:180, 413-415,
\* part_001:143, codeActions.mts:604) when the server has just started
StartupResolved(file) == [gen |-> 0, known |-> Range(file.userWords) \cup Range(file.words)]

\* The server has started; for the language servers document d1 was opened and its
\* first validation has settled: the settings are stored (where the revision's
\* store takes effect), the loader has the file it read and the diagnostics of
\* version 1 are published.  The handler revision has both documents, no lookup yet.
Init ==
    /\ variant \in Variants
    /\ optConfig \in (IF variant = "current" THEN BOOLEAN ELSE {TRUE})
    /\ documents = (IF variant = "handler" THEN Uris ELSE {"d1"})
    /\ version = [d \in Uris |-> IF d \in documents THEN 1 ELSE 0]
    /\ configFile \in (IF variant \in {"current", "threeCmd", "addToConfig"}
                      THEN {NoFile, InitialFile} ELSE {NoFile})
    /\ jsonPath \in (IF \/ variant = "current" /\ (optConfig \/ configFile.exists)
                       \/ variant = "threeCmd"
                    THEN BOOLEAN ELSE {TRUE})
    /\ settingsCache =
           (IF Server
            THEN Store(EmptyCache, "d1",
                       [has |-> TRUE, docVersion |-> 0, settingsVersion |-> 0, comp |-> 1,
                        value |-> StartupResolved(configFile)])
            ELSE EmptyCache)
    /\ settingsVersion = 0
    /\ cachedSettingsFiles =
           (IF ReadsFile(configFile)
            THEN [has |-> TRUE, gen |-> 0, file |-> configFile] ELSE NoCached)
    /\ fileGen = 0
    /\ defaultSettings = NoWords
    /\ userSettings = (IF variant \in {"threeCmd", "addToConfig"}
                       THEN StartupSettings(configFile) ELSE NoUser)
    /\ dictFile = <<>>
    /\ refreshes = <<>>
    /\ appends = <<>>
    /\ tasks = [t \in TaskIds |-> IdleTask]
    /\ cmds = [c \in CmdIds |-> IdleCmd]
    /\ running = 0
    /\ published = [d \in Uris |-> IF Server /\ d = "d1"
                                    THEN [has |-> TRUE, ver |-> 1, gen |-> 0]
                                    ELSE NoPublished]
    /\ nextComp = (IF Server THEN 1 ELSE 0)
    /\ lastComp = [d \in Uris |-> IF Server /\ d = "d1" THEN 1 ELSE 0]
    /\ sinceLookup = [d \in Uris |-> FALSE]
    /\ valid = [d \in Uris |-> IF Server /\ d = "d1"
                                THEN [any |-> TRUE, clear |-> TRUE] ELSE Invalid]
    /\ added = {}
    /\ events = 0
    /\ log = NoLogs
    /\ returned = NoReturn
    /\ sent = NoSent
    /\ call = NoCall

LoopIdle == running = 0
MayReceive == LoopIdle /\ events < MaxEvents

\* A step that sends no reply and no diagnostics, and one that looks nothing up
Silent == returned' = NoReturn /\ sent' = NoSent
NoLookup == log' = NoLogs /\ UNCHANGED <<tasks, nextComp, lastComp, sinceLookup, valid>>

\* -------------------------------------------------- document notifications
\* main.ts:139-141 documents.onDidChangeContent, fired when a document is opened
DidOpen(d) ==
    /\ Server /\ MayReceive
    /\ d \notin documents
    /\ FreeSlots(tasks) # {}
    /\ documents' = documents \cup {d}
    /\ version' = [version EXCEPT ![d] = @ + 1]
    /\ SetLookup(StartLookup(Touched(LookupState, d, version'), settingsCache, d, "change", 0))
    /\ events' = events + 1
    /\ Silent
    /\ UNCHANGED <<setup, settingsCache, settingsVersion, cachedSettingsFiles, disk, memory,
                   cmds, running, published, added>>

\* main.ts:139-141 documents.onDidChangeContent, fired when the content changed
DidChangeContent(d) ==
    /\ Server /\ MayReceive
    /\ d \in documents
    /\ FreeSlots(tasks) # {}
    /\ version' = [version EXCEPT ![d] = @ + 1]
    /\ SetLookup(StartLookup(Touched(LookupState, d, version'), settingsCache, d, "change", 0))
    /\ events' = events + 1
    /\ Silent
    /\ UNCHANGED <<setup, documents, settingsCache, settingsVersion, cachedSettingsFiles,
                   disk, memory, cmds, running, published, added>>

\* main.ts:257 documents.listen(connection): the document was closed
DidClose(d) ==
    /\ Server /\ MayReceive
    /\ d \in documents
    /\ documents' = documents \ {d}
    /\ events' = events + 1
    /\ Silent /\ NoLookup
    /\ UNCHANGED <<setup, version, settingsCache, settingsVersion, cachedSettingsFiles,
                   disk, memory, cmds, running, published, added>>

\* codeActions.ts:86 and :195, codeActions.mts:431: a code-action request asks for
\* the settings of the document
OnCodeAction(d) ==
    /\ Server /\ MayReceive
    /\ d \in documents
    /\ FreeSlots(tasks) # {}
    /\ SetLookup(StartLookup(LookupState, settingsCache, d, "codeAction", 0))
    /\ events' = events + 1
    /\ Silent
    /\ UNCHANGED <<setup, docs, settingsCache, settingsVersion, cachedSettingsFiles, disk,
                   memory, cmds, running, published, added>>

\* ------------------------------------------------------- validation passes
\* readSettings / searchForConfig (main.ts:170, 177, 413): the loader reads the file
\* unless it has it cached.
LoaderRead == IF cachedSettingsFiles.has THEN cachedSettingsFiles
              ELSE [has |-> TRUE, gen |-> fileGen, file |-> configFile]

ResolveConfig(t) ==
    /\ Server /\ LoopIdle
    /\ tasks[t].pc = "resolving"
    /\ cachedSettingsFiles' = LoaderRead
    /\ tasks' = [tasks EXCEPT ![t].pc = "resolved",
                              ![t].settings = [gen |-> LoaderRead.gen,
                                               known |-> Range(LoaderRead.file.userWords)
                                                         \cup Range(LoaderRead.file.words)]]
    /\ log' = NoLogs
    /\ Silent
    /\ UNCHANGED <<setup, docs, settingsCache, settingsVersion, disk, memory, nextComp,
                   lastComp, sinceLookup, valid, cmds, running, published, added, events>>

\* What the resolver merges when it resumes:
\*   main.ts:180 mergeSettings(defaults, global, defaultSettings, config || {})
\*   main.ts:413-415 the file when it exists, else defaultSettings
\*   part_001:143 copySettings(userSettings, settings)
\*   codeActions.mts:604 settings.userWords = [...userWords]
ResolvedSettings(t) ==
    LET read == tasks[t].settings
        defaults == Range(defaultSettings.userWords) \cup Range(defaultSettings.words)
        inMemory == Range(userSettings.userWords) \cup Range(userSettings.words)
    IN  CASE variant = "current" -> [gen |-> read.gen, known |-> read.known \cup defaults]
          [] variant = "threeCmd" -> IF read.gen >= 0 THEN read
                                     ELSE [gen |-> fileGen, known |-> defaults]
          [] OTHER -> [gen |-> fileGen, known |-> inMemory]

\* main.ts:180-184 and validator part_000:39-49: merge, store, return; then the
\* validator takes its snapshot of the text and waits for the engine.  The
\* settings a code-action request asked for go back to the planner.
SettingsResolved(t) ==
    /\ Server /\ LoopIdle
    /\ tasks[t].pc = "resolved"
    /\ LET d == tasks[t].uri
           s == ResolvedSettings(t)
       IN  /\ settingsCache' = Store(settingsCache, d,
                   [has |-> TRUE, docVersion |-> 0, settingsVersion |-> 0,
                    comp |-> tasks[t].comp, value |-> s])
           /\ tasks' = IF tasks[t].origin = "codeAction" THEN Settle(tasks, t)
                       ELSE [tasks EXCEPT ![t].pc = "checking", ![t].settings = s,
                                          ![t].snap = version[d]]
           /\ valid' = [valid EXCEPT ![d] = [any |-> TRUE, clear |-> TRUE]]
    /\ log' = NoLogs
    /\ Silent
    /\ UNCHANGED <<setup, docs, settingsVersion, cachedSettingsFiles, disk, memory, nextComp,
                   lastComp, sinceLookup, cmds, running, published, added, events>>

\* sendDiagnostics guarded by a comparison of the versions
SendIfCurrent(t) == tasks[t].snap = version[tasks[t].uri]

\* main.ts:145 connection.sendDiagnostics is not guarded
Send(t) == TRUE

\* main.ts:145-148 connection.sendDiagnostics; codeActions.mts:627 the command that
\* awaits the pass resumes
Publish(t) ==
    /\ Server /\ LoopIdle
    /\ tasks[t].pc = "checking"
    /\ LET d == tasks[t].uri
       IN  IF Send(t)
           THEN /\ published' = [published EXCEPT ![d] =
                       [has |-> TRUE, ver |-> tasks[t].snap, gen |-> tasks[t].settings.gen]]
                /\ sent' = [has |-> TRUE, uri |-> d, ver |-> tasks[t].snap,
                            gen |-> tasks[t].settings.gen, origin |-> tasks[t].origin,
                            over |-> published[d].ver, word |-> tasks[t].word,
                            since |-> tasks[t].since, known |-> tasks[t].settings.known]
           ELSE /\ sent' = NoSent
                /\ UNCHANGED published
    /\ tasks' = Settle(tasks, t)
    /\ cmds' = IF tasks[t].waiter = 0 THEN cmds
               ELSE [cmds EXCEPT ![tasks[t].waiter].pc = "validated"]
    /\ log' = NoLogs
    /\ returned' = NoReturn
    /\ UNCHANGED <<setup, docs, settingsCache, settingsVersion, cachedSettingsFiles, disk,
                   memory, nextComp, lastComp, sinceLookup, valid, running, added, events>>

\* --------------------------------------------------- config-change signal
\* the same passes started without clearing either cache
RevalidateKeepingCaches(st, origin) ==
    /\ UNCHANGED <<settingsCache, cachedSettingsFiles>>
    /\ SetLookup(StartValidations(st, settingsCache, AllDocuments, origin))

\* main.ts:151-157 revalidateAllOpenDocuments
Revalidate(st, origin) ==
    /\ settingsCache' = EmptyCache
    /\ cachedSettingsFiles' = NoCached
    /\ SetLookup(StartValidations(Cleared(st), EmptyCache, AllDocuments, origin))

RevalidateAllOpenDocuments(origin) == Revalidate(LookupState, origin)

\* main.ts:131-134 connection.onDidChangeWatchedFiles
DidChangeWatchedFiles ==
    /\ variant = "current" /\ MayReceive
    /\ Cardinality(FreeSlots(tasks)) >= Cardinality(documents)
    /\ RevalidateAllOpenDocuments("signal")
    /\ events' = events + 1
    /\ Silent
    /\ UNCHANGED <<setup, docs, settingsVersion, disk, memory, cmds, running, published,
                   added>>

\* ------------------------------------------------------- execute-command
\* documents.get(uri) answering for any uri
DocumentKnownAlways(uri) == TRUE

\* main.ts:195-196 const document = documents.get(uri); if (!document)
DocumentKnown(uri) == uri \in documents

\* document.getText(range) answering some text for any range
WordExtractedAlways(word) == TRUE

\* main.ts:199-200 const word = document.getText(range); if (!word)
WordExtracted(word) == word # ""

IdleCmds == {c \in CmdIds : cmds[c].pc = "idle"}
IdleCmdSlot == CHOOSE c \in IdleCmds : \A u \in IdleCmds : c <= u
\* The activations of the handler once activation c has returned, in the order they
\* started, and the passes that are awaited by one of them
Return(cm, c) ==
    [i \in CmdIds |-> IF i < c THEN cm[i] ELSE IF i < MaxCmds THEN cm[i + 1] ELSE IdleCmd]
Awaited(tk, c) ==
    [t \in TaskIds |-> IF tk[t].waiter > c THEN [tk[t] EXCEPT !.waiter = @ - 1] ELSE tk[t]]

\* The pc a request that passed the checks goes to: main.ts:204-210 waits for
\* searchForConfig unless --config was given; the other handlers go straight on.
FirstPc == IF variant = "current" THEN (IF optConfig THEN "read" ELSE "searching") ELSE "run"

\* The passes the handler is going to start fit in the free slots.
EnoughSlots ==
    Cardinality(FreeSlots(tasks)) >= (IF variant = "current" THEN Cardinality(documents) ELSE 1)

\* The words the server has been given so far.  Words are interchangeable, so the
\* first one a behaviour adds is called w1.
GivenWords ==
    Range(configFile.userWords) \cup Range(configFile.words)
        \cup Range(defaultSettings.userWords) \cup Range(defaultSettings.words)
        \cup Range(userSettings.userWords) \cup Range(userSettings.words)
        \cup Range(dictFile) \cup Range(appends) \cup {cmds[c].word : c \in CmdIds}
FirstWord(word) == word = "w1" \/ "w1" \in GivenWords

Reply(cmd, result, message) ==
    returned' = [command |-> cmd.command, docOpen |-> cmd.docOpen,
                 result |-> result, message |-> message, order |-> cmd.order]

\* main.ts:187-210, main.ts:424-440, part_001:162-172 and :190,
\* codeActions.mts:609-620 and :633: the checks every handler starts with
ExecuteCommand(command, uri, word) ==
    /\ Server /\ MayReceive
    /\ LET c == IdleCmdSlot
           req == [IdleCmd EXCEPT !.command = command, !.uri = uri, !.word = word,
                                  !.docOpen = (uri \in documents)]
           refused(result, message) ==
               Reply(req, result, message) /\ UNCHANGED <<cmds, running>>
       IN  IF command \notin COMMANDS THEN refused("undefined", "none")
           ELSE IF ~DocumentKnown(uri) THEN refused("error", "document")
           ELSE IF ~WordExtracted(word) THEN refused("error", "word")
           ELSE /\ IdleCmds # {}
                /\ FirstWord(word)
                /\ FirstPc = "searching" \/ EnoughSlots
                /\ cmds' = [cmds EXCEPT ![c] = [req EXCEPT !.pc = FirstPc]]
                /\ running' = ThreadAt(c, FirstPc)
                /\ returned' = NoReturn
    /\ events' = events + 1
    /\ sent' = NoSent /\ NoLookup
    /\ UNCHANGED <<setup, docs, settingsCache, settingsVersion, cachedSettingsFiles, disk,
                   memory, published, added>>

\* main.ts:208 getDefaultConfigLoader().searchForConfig(docPath): the loader looks
\* for the file at some moment of the wait
CmdSearchDone(c) ==
    /\ variant = "current" /\ cmds[c].pc = "searching" /\ HasThread(c)
    /\ cachedSettingsFiles' = LoaderRead
    /\ cmds' = [cmds EXCEPT ![c].pc = "searched", ![c].hasPath = LoaderRead.file.exists]
    /\ running' = ThreadAt(c, "searched")
    /\ Silent /\ NoLookup
    /\ UNCHANGED <<setup, docs, settingsCache, settingsVersion, disk, memory, published,
                   added, events>>

\* main.ts:208-209 the handler resumes: configPath = config?.source?.filename
CmdSearched(c) ==
    /\ variant = "current" /\ cmds[c].pc = "searched" /\ HasThread(c)
    /\ EnoughSlots
    /\ cmds' = [cmds EXCEPT ![c].pc = "read"]
    /\ running' = ThreadAt(c, "read")
    /\ Silent /\ NoLookup
    /\ UNCHANGED <<setup, docs, settingsCache, settingsVersion, cachedSettingsFiles, disk,
                   memory, published, added, events>>

\* the test of the path's ending left out
NotJsonNever(c) == FALSE

\* main.ts:229 !configPath.endsWith(".json"), main.ts:442
\* !mainSettingsPath.endsWith(".json"): the path the command is to write is the
\* one given or found (the file it creates itself is cspell.json)
NotJson(c) ==
    /\ ~jsonPath
    /\ \/ variant = "current" /\ cmds[c].pc = "read" /\ (optConfig \/ cmds[c].hasPath)
       \/ variant = "threeCmd" /\ cmds[c].pc = "run" /\ cmds[c].command \in ConfigCommands

\* main.ts:212-231: read and parse the file at configPath, or start the new file
\* from defaultSettings (the same object, not a copy)
CmdRead(c) ==
    /\ variant = "current" /\ cmds[c].pc = "read" /\ HasThread(c)
    /\ ~NotJson(c)
    /\ LET path == optConfig \/ cmds[c].hasPath
       IN  cmds' = [cmds EXCEPT ![c].pc = "modify",
                                ![c].hasPath = TRUE,
                                ![c].aliased = ~path,
                                ![c].currentSettings =
                                    IF path
                                    THEN [userWords |-> configFile.userWords,
                                          words |-> configFile.words]
                                    ELSE NoWords]
    /\ running' = ThreadAt(c, "modify")
    /\ Silent /\ NoLookup
    /\ UNCHANGED <<setup, docs, settingsCache, settingsVersion, cachedSettingsFiles, disk,
                   memory, published, added, events>>

\* main.ts:229-231, main.ts:442-444: return { error: `Only JSON config files are
\* supported` }
RefuseNotJson(c) ==
    /\ variant \in {"current", "threeCmd"} /\ HasThread(c)
    /\ NotJson(c)
    /\ Reply(cmds[c], "error", "json")
    /\ cmds' = Return(cmds, c)
    /\ tasks' = Awaited(tasks, c)
    /\ running' = 0
    /\ sent' = NoSent
    /\ log' = NoLogs
    /\ UNCHANGED <<setup, docs, settingsCache, settingsVersion, cachedSettingsFiles, disk,
                   memory, nextComp, lastComp, sinceLookup, valid, published, added, events>>

\* currentSettings[attribute] = [word]
ReplaceWords(settings, attribute, word) == [settings EXCEPT ![attribute] = <<word>>]

\* main.ts:235-239 words.push(word) unless words.includes(word)
AddWord(settings, attribute, word) ==
    IF word \in Range(settings[attribute]) THEN settings
    ELSE [settings EXCEPT ![attribute] = Append(@, word)]

\* The object currentSettings refers to: main.ts:225 currentSettings = defaultSettings
CurrentSettings(c) == IF cmds[c].aliased THEN defaultSettings ELSE cmds[c].currentSettings

\* main.ts:233-239: add the word to the list unless it is there
\* (options.sortWords is off in the server's behaviours; the sort of
\* main.ts:242-245 is Sort, applied by Written)
CmdModify(c) ==
    /\ variant = "current" /\ cmds[c].pc = "modify" /\ HasThread(c)
    /\ LET new == AddWord(CurrentSettings(c), Attribute(cmds[c].command), cmds[c].word)
       IN  /\ cmds' = [cmds EXCEPT ![c].pc = "write",
                                   ![c].currentSettings = IF cmds[c].aliased THEN NoWords ELSE new]
           /\ defaultSettings' = IF cmds[c].aliased THEN new ELSE defaultSettings
    /\ running' = ThreadAt(c, "write")
    /\ Silent /\ NoLookup
    /\ UNCHANGED <<setup, docs, settingsCache, settingsVersion, cachedSettingsFiles, disk,
                   userSettings, published, added, events>>

\* main.ts:248 fs.writeFileSync(configPath, JSON.stringify(currentSettings, null, 2))
CmdWrite(c) ==
    /\ variant = "current" /\ cmds[c].pc = "write" /\ HasThread(c)
    /\ configFile' = [exists |-> TRUE, userWords |-> CurrentSettings(c).userWords,
                      words |-> CurrentSettings(c).words]
    /\ fileGen' = fileGen + 1
    /\ cmds' = [cmds EXCEPT ![c].pc = "revalidate", ![c].order = Append(@, "persist"),
                            ![c].currentSettings = NoWords]
    /\ running' = ThreadAt(c, "revalidate")
    /\ Silent /\ NoLookup
    /\ UNCHANGED <<setup, docs, settingsCache, settingsVersion, cachedSettingsFiles,
                   dictFile, refreshes, appends, memory, published, added, events>>

\* A request whose handler threw is answered as a failed request, with no result
WriteFailureSwallowed(cmd) == Reply(cmd, "result", "added")

\* main.ts:248 fs.writeFileSync throws: nothing catches it in the handler, so the
\* exception leaves the handler and the request fails
WriteFailed(cmd) == Reply(cmd, "failure", "write")

\* The handler activation c ends with the exception: what it had done stays done
Thrown(c) ==
    /\ WriteFailed(cmds[c])
    /\ cmds' = Return(cmds, c)
    /\ tasks' = Awaited(tasks, c)
    /\ running' = 0
    /\ sent' = NoSent
    /\ log' = NoLogs
    /\ UNCHANGED <<setup, docs, settingsCache, settingsVersion, cachedSettingsFiles, disk,
                   nextComp, lastComp, sinceLookup, valid, published, added, events>>

\* main.ts:248 fs.writeFileSync fails with a filesystem error
CmdWriteFails(c) ==
    /\ variant = "current" /\ cmds[c].pc = "write" /\ HasThread(c)
    /\ Thrown(c)
    /\ UNCHANGED memory

\* main.ts:250 revalidateAllOpenDocuments()
CmdRevalidate(c) ==
    /\ variant = "current" /\ cmds[c].pc = "revalidate" /\ HasThread(c)
    /\ Revalidate(For(LookupState, c, fileGen), "command")
    /\ cmds' = [cmds EXCEPT ![c].pc = "return",
                            ![c].order = @ \o <<"invalidate", "revalidate">>]
    /\ running' = ThreadAt(c, "return")
    /\ Silent
    /\ UNCHANGED <<setup, docs, settingsVersion, disk, memory, published, added, events>>

\* main.ts:251, main.ts:474 and :482, part_001:187, codeActions.mts:630: return { result }
CmdReturn(c) ==
    /\ Server /\ cmds[c].pc = "return" /\ HasThread(c)
    /\ Reply(cmds[c], "result", "added")
    /\ added' = IF cmds[c].command \in ConfigCommands
                THEN added \cup {<<Attribute(cmds[c].command), cmds[c].word>>}
                ELSE added
    /\ cmds' = Return(cmds, c)
    /\ tasks' = Awaited(tasks, c)
    /\ running' = 0
    /\ sent' = NoSent
    /\ log' = NoLogs
    /\ UNCHANGED <<setup, docs, settingsCache, settingsVersion, cachedSettingsFiles, disk,
                   memory, nextComp, lastComp, sinceLookup, valid, published, events>>

\* ------------------------------------------- the older command handlers
\* main.ts:473, part_001:186, codeActions.mts:627 validateTextDocument(document)
ValidateDocument(st, cache, c, waiter) == StartLookup(st, cache, cmds[c].uri, "command", waiter)

\* userSettings[attribute].push(word), main.ts:455-458
Push(settings, attribute, word) == [settings EXCEPT ![attribute] = Append(@, word)]

\* main.ts:441-474: the config commands of the three-command revision
ThreeCmdConfig(c) ==
    /\ variant = "threeCmd" /\ cmds[c].pc = "run" /\ HasThread(c)
    /\ cmds[c].command \in ConfigCommands
    /\ ~NotJson(c)
    /\ LET base == IF configFile.exists THEN userSettings
                   ELSE [userWords |-> defaultSettings.userWords,
                         words |-> defaultSettings.words, shared |-> TRUE]
           new == Push(base, Attribute(cmds[c].command), cmds[c].word)
       IN  /\ userSettings' = new
           /\ defaultSettings' = IF new.shared
                                 THEN [userWords |-> new.userWords, words |-> new.words]
                                 ELSE defaultSettings
           /\ configFile' = [exists |-> TRUE, userWords |-> new.userWords, words |-> new.words]
    /\ fileGen' = fileGen + 1
    /\ settingsCache' = EmptyCache
    /\ cachedSettingsFiles' = NoCached
    /\ SetLookup(ValidateDocument([Cleared(For(LookupState, c, fileGen'))
                                       EXCEPT !.file = configFile'], EmptyCache, c, 0))
    /\ cmds' = [cmds EXCEPT ![c].pc = "return",
                            ![c].order = <<"persist", "invalidate", "revalidate">>]
    /\ running' = ThreadAt(c, "return")
    /\ Silent
    /\ UNCHANGED <<setup, docs, settingsVersion, dictFile, refreshes, appends, published,
                   added, events>>

\* the same with validateTextDocument(document) called at once, no refresh waited for
ThreeCmdDictionaryValidatesAtOnce(c) ==
    /\ variant = "threeCmd" /\ cmds[c].pc = "run" /\ HasThread(c)
    /\ cmds[c].command = "AddToCustomDictionary"
    /\ FreeSlots(tasks) # {}
    /\ dictFile' = Append(dictFile, cmds[c].word)
    /\ SetLookup(ValidateDocument(For(LookupState, c, fileGen), settingsCache, c, 0))
    /\ cmds' = [cmds EXCEPT ![c].pc = "return", ![c].order = <<"persist", "revalidate">>]
    /\ running' = ThreadAt(c, "return")
    /\ Silent
    /\ UNCHANGED <<setup, docs, settingsCache, settingsVersion, cachedSettingsFiles,
                   configFile, fileGen, refreshes, appends, memory, published, added, events>>

\* main.ts:476-482: AddToCustomDictionary
ThreeCmdDictionary(c) ==
    /\ variant = "threeCmd" /\ cmds[c].pc = "run" /\ HasThread(c)
    /\ cmds[c].command = "AddToCustomDictionary"
    /\ dictFile' = Append(dictFile, cmds[c].word)
    /\ refreshes' = Append(refreshes, cmds[c].uri)
    /\ cmds' = [cmds EXCEPT ![c].pc = "return", ![c].order = <<"persist", "revalidate">>]
    /\ running' = ThreadAt(c, "return")
    /\ Silent /\ NoLookup
    /\ UNCHANGED <<setup, docs, settingsCache, settingsVersion, cachedSettingsFiles,
                   configFile, fileGen, appends, memory, published, added, events>>

\* main.ts:449-467: fs.writeFileSync fails after the word was pushed to userSettings
ThreeCmdConfigFails(c) ==
    /\ variant = "threeCmd" /\ cmds[c].pc = "run" /\ HasThread(c)
    /\ cmds[c].command \in ConfigCommands
    /\ ~NotJson(c)
    /\ LET base == IF configFile.exists THEN userSettings
                   ELSE [userWords |-> defaultSettings.userWords,
                         words |-> defaultSettings.words, shared |-> TRUE]
           new == Push(base, Attribute(cmds[c].command), cmds[c].word)
       IN  /\ userSettings' = new
           /\ defaultSettings' = IF new.shared
                                 THEN [userWords |-> new.userWords, words |-> new.words]
                                 ELSE defaultSettings
    /\ Thrown(c)

\* main.ts:479 fs.appendFileSync fails
ThreeCmdDictionaryFails(c) ==
    /\ variant = "threeCmd" /\ cmds[c].pc = "run" /\ HasThread(c)
    /\ cmds[c].command = "AddToCustomDictionary"
    /\ Thrown(c)
    /\ UNCHANGED memory

\* main.ts:481 refreshDictionaryCache(0).then(() => validateTextDocument(document))
RefreshDone ==
    /\ variant = "threeCmd" /\ LoopIdle
    /\ refreshes # <<>>
    /\ FreeSlots(tasks) # {}
    /\ refreshes' = Tail(refreshes)
    /\ SetLookup(StartLookup(LookupState, settingsCache, Head(refreshes), "command", 0))
    /\ Silent
    /\ UNCHANGED <<setup, docs, settingsCache, settingsVersion, cachedSettingsFiles,
                   configFile, fileGen, dictFile, appends, memory, cmds, running, published,
                   added, events>>

\* part_001:173-187: AddToConfig
AddToConfig(c) ==
    /\ variant = "addToConfig" /\ cmds[c].pc = "run" /\ HasThread(c)
    /\ LET new == Push(userSettings, "userWords", cmds[c].word)
       IN  /\ userSettings' = new
           /\ configFile' = [exists |-> TRUE, userWords |-> new.userWords, words |-> new.words]
    /\ fileGen' = fileGen + 1
    /\ settingsCache' = EmptyCache
    /\ SetLookup(ValidateDocument([Cleared(For(LookupState, c, fileGen'))
                                       EXCEPT !.file = configFile'], EmptyCache, c, 0))
    /\ cmds' = [cmds EXCEPT ![c].pc = "return",
                            ![c].order = <<"persist", "invalidate", "revalidate">>]
    /\ running' = ThreadAt(c, "return")
    /\ Silent
    /\ UNCHANGED <<setup, docs, settingsVersion, cachedSettingsFiles, dictFile, refreshes,
                   appends, defaultSettings, published, added, events>>

\* part_001:174-181: fs.writeFileSync fails after userSettings.userWords was replaced
AddToConfigFails(c) ==
    /\ variant = "addToConfig" /\ cmds[c].pc = "run" /\ HasThread(c)
    /\ userSettings' = Push(userSettings, "userWords", cmds[c].word)
    /\ Thrown(c)
    /\ UNCHANGED defaultSettings

\* codeActions.mts:620-627: AddToDictionary up to await validateTextDocument(document)
AddToDictionary(c) ==
    /\ variant = "addToDict" /\ cmds[c].pc = "run" /\ HasThread(c)
    /\ userSettings' = Push(userSettings, "userWords", cmds[c].word)
    /\ fileGen' = fileGen + 1
    /\ appends' = IF optConfig THEN Append(appends, cmds[c].word) ELSE appends
    /\ SetLookup(ValidateDocument(For(LookupState, c, fileGen'), settingsCache, c, c))
    /\ cmds' = [cmds EXCEPT ![c].pc = "awaitValidate", ![c].order = <<"persist", "revalidate">>]
    /\ running' = ThreadAt(c, "awaitValidate")
    /\ Silent
    /\ UNCHANGED <<setup, docs, settingsCache, settingsVersion, cachedSettingsFiles,
                   configFile, dictFile, refreshes, defaultSettings, published, added, events>>

\* codeActions.mts:628-629: settingsCache = new Map() once the validation is over
AddToDictionaryResumed(c) ==
    /\ variant = "addToDict" /\ cmds[c].pc = "validated" /\ LoopIdle
    /\ settingsCache' = EmptyCache
    /\ sinceLookup' = Cleared(LookupState).sinceLookup
    /\ valid' = Cleared(LookupState).valid
    /\ cmds' = [cmds EXCEPT ![c].pc = "return", ![c].order = Append(@, "invalidate")]
    /\ running' = ThreadAt(c, "return")
    /\ log' = NoLogs
    /\ Silent
    /\ UNCHANGED <<setup, docs, settingsVersion, cachedSettingsFiles, disk, memory, tasks,
                   nextComp, lastComp, published, added, events>>

\* codeActions.mts:625 fs.appendFile(dictionaryPath, word + "\n", () => { }) completes
AppendDone ==
    /\ variant = "addToDict" /\ LoopIdle
    /\ appends # <<>>
    /\ dictFile' = Append(dictFile, Head(appends))
    /\ appends' = Tail(appends)
    /\ Silent /\ NoLookup
    /\ UNCHANGED <<setup, docs, settingsCache, settingsVersion, cachedSettingsFiles,
                   configFile, fileGen, refreshes, memory, cmds, running, published, added,
                   events>>

\* codeActions.mts:625 fs.appendFile fails: the callback () => { } ignores the error
AppendFails ==
    /\ variant = "addToDict" /\ LoopIdle
    /\ appends # <<>>
    /\ appends' = Tail(appends)
    /\ Silent /\ NoLookup
    /\ UNCHANGED <<setup, docs, settingsCache, settingsVersion, cachedSettingsFiles,
                   configFile, fileGen, dictFile, refreshes, memory, cmds, running,
                   published, added, events>>

\* ------------------------------------ CodeActionHandler (codeActions.mts)
\* codeActions.mts:72-81 getSettings: the entry holds the promise and is stored
\* before the first await
GetSettings(d) ==
    /\ variant = "handler" /\ MayReceive
    /\ LET rec == LookupRecord(LookupState, settingsCache, d, "codeAction")
           t == FreeSlot(tasks)
       IN  /\ rec.hit \/ FreeSlots(tasks) # {}
           /\ log' = [NoLogs EXCEPT ![d] = rec]
           /\ lastComp' = [lastComp EXCEPT ![d] = rec.comp]
           /\ sinceLookup' = [sinceLookup EXCEPT ![d] = FALSE]
           /\ IF rec.hit
              THEN UNCHANGED <<tasks, settingsCache, nextComp, valid>>
              ELSE /\ tasks' = [tasks EXCEPT ![t] =
                          [IdleTask EXCEPT !.pc = "constructing", !.uri = d,
                                           !.comp = nextComp + 1, !.origin = "codeAction"]]
                   /\ settingsCache' = [settingsCache EXCEPT ![d] =
                          [has |-> TRUE, docVersion |-> version[d],
                           settingsVersion |-> settingsVersion, comp |-> nextComp + 1,
                           value |-> NoSettings]]
                   /\ nextComp' = nextComp + 1
                   /\ valid' = [valid EXCEPT ![d] = [any |-> TRUE, clear |-> TRUE]]
    /\ events' = events + 1
    /\ Silent
    /\ UNCHANGED <<setup, docs, settingsVersion, cachedSettingsFiles, disk, memory, cmds,
                   running, published, added>>

\* codeActions.mts:83-87 constructSettings resolves
ConstructSettingsDone(t) ==
    /\ variant = "handler" /\ LoopIdle
    /\ tasks[t].pc = "constructing"
    /\ tasks' = Settle(tasks, t)
    /\ log' = NoLogs
    /\ Silent
    /\ UNCHANGED <<setup, docs, settingsCache, settingsVersion, cachedSettingsFiles, disk,
                   memory, nextComp, lastComp, sinceLookup, valid, cmds, running, published,
                   added, events>>

\* doc.version moves with an edit (codeActions.mts:75 reads it)
DocumentChanged(d) ==
    /\ variant = "handler" /\ MayReceive
    /\ version' = [version EXCEPT ![d] = @ + 1]
    /\ sinceLookup' = [sinceLookup EXCEPT ![d] = TRUE]
    /\ valid' = [valid EXCEPT ![d].any = FALSE]
    /\ events' = events + 1
    /\ log' = NoLogs
    /\ Silent
    /\ UNCHANGED <<setup, documents, settingsCache, settingsVersion, cachedSettingsFiles,
                   disk, memory, tasks, nextComp, lastComp, cmds, running, published, added>>

\* dependencies.getSettingsVersion(doc) answers a new number
SettingsVersionChanged ==
    /\ variant = "handler" /\ MayReceive
    /\ settingsVersion' = settingsVersion + 1
    /\ sinceLookup' = Cleared(LookupState).sinceLookup
    /\ valid' = Cleared(LookupState).valid
    /\ events' = events + 1
    /\ log' = NoLogs
    /\ Silent
    /\ UNCHANGED <<setup, docs, settingsCache, cachedSettingsFiles, disk, memory, tasks,
                   nextComp, lastComp, cmds, running, published, added>>

\* ------------------------------------------------------------------ Next
Next ==
    \/ \E d \in Uris : DidOpen(d)
    \/ \E d \in Uris : DidChangeContent(d)
    \/ \E d \in Uris : DidClose(d)
    \/ \E d \in Uris : OnCodeAction(d)
    \/ \E t \in TaskIds : ResolveConfig(t)
    \/ \E t \in TaskIds : SettingsResolved(t)
    \/ \E t \in TaskIds : Publish(t)
    \/ DidChangeWatchedFiles
    \/ \E command \in Requests, uri \in Uris, word \in Words \cup {""} :
           ExecuteCommand(command, uri, word)
    \/ \E c \in CmdIds : CmdSearchDone(c)
    \/ \E c \in CmdIds : CmdSearched(c)
    \/ \E c \in CmdIds : CmdRead(c)
    \/ \E c \in CmdIds : RefuseNotJson(c)
    \/ \E c \in CmdIds : CmdModify(c)
    \/ \E c \in CmdIds : CmdWrite(c)
    \/ \E c \in CmdIds : CmdWriteFails(c)
    \/ \E c \in CmdIds : CmdRevalidate(c)
    \/ \E c \in CmdIds : CmdReturn(c)
    \/ \E c \in CmdIds : ThreeCmdConfig(c)
    \/ \E c \in CmdIds : ThreeCmdConfigFails(c)
    \/ \E c \in CmdIds : ThreeCmdDictionary(c)
    \/ \E c \in CmdIds : ThreeCmdDictionaryFails(c)
    \/ RefreshDone
    \/ \E c \in CmdIds : AddToConfig(c)
    \/ \E c \in CmdIds : AddToConfigFails(c)
    \/ \E c \in CmdIds : AddToDictionary(c)
    \/ \E c \in CmdIds : AddToDictionaryResumed(c)
    \/ AppendDone
    \/ AppendFails
    \/ \E d \in Uris : GetSettings(d)
    \/ \E t \in TaskIds : ConstructSettingsDone(t)
    \/ \E d \in Uris : DocumentChanged(d)
    \/ SettingsVersionChanged

Spec == Init /\ [][Next]_vars

\* The event loop runs what is ready: a settled read or engine call resumes its
\* pass, and a handler that holds the thread runs on to its next await.
Fairness ==
    /\ WF_vars(\E t \in TaskIds : ResolveConfig(t))
    /\ WF_vars(\E t \in TaskIds : SettingsResolved(t))
    /\ WF_vars(\E t \in TaskIds : Publish(t))
    /\ WF_vars(\E c \in CmdIds : CmdSearched(c))
    /\ WF_vars(\E c \in CmdIds : CmdRead(c))
    /\ WF_vars(\E c \in CmdIds : RefuseNotJson(c))
    /\ WF_vars(\E c \in CmdIds : CmdModify(c))
    /\ WF_vars(\E c \in CmdIds : CmdWrite(c))
    /\ WF_vars(\E c \in CmdIds : CmdRevalidate(c))
    /\ WF_vars(\E c \in CmdIds : CmdReturn(c))

FairSpec == Spec /\ Fairness

\* The server of main.ts:1-261 alone, on a live event loop: the handlers that
\* revision registers (main.ts:131-134, 139-141, 187-253, codeActions.ts:86)
\* and the continuations of its passes and commands.
CurrentInit == Init /\ variant = "current"

CurrentNext ==
    \/ \E d \in Uris : DidOpen(d)
    \/ \E d \in Uris : DidChangeContent(d)
    \/ \E d \in Uris : DidClose(d)
    \/ \E d \in Uris : OnCodeAction(d)
    \/ \E t \in TaskIds : ResolveConfig(t)
    \/ \E t \in TaskIds : SettingsResolved(t)
    \/ \E t \in TaskIds : Publish(t)
    \/ DidChangeWatchedFiles
    \/ \E command \in Requests, uri \in Uris, word \in Words \cup {""} :
           ExecuteCommand(command, uri, word)
    \/ \E c \in CmdIds : CmdSearchDone(c)
    \/ \E c \in CmdIds : CmdSearched(c)
    \/ \E c \in CmdIds : CmdRead(c)
    \/ \E c \in CmdIds : RefuseNotJson(c)
    \/ \E c \in CmdIds : CmdModify(c)
    \/ \E c \in CmdIds : CmdWrite(c)
    \/ \E c \in CmdIds : CmdWriteFails(c)
    \/ \E c \in CmdIds : CmdRevalidate(c)
    \/ \E c \in CmdIds : CmdReturn(c)

CurrentSpec == CurrentInit /\ [][CurrentNext]_vars /\ Fairness

\* ---------------------------------------------------------------- claims
Checking == {t \in TaskIds : tasks[t].pc = "checking"}
InFlight(d, origin) ==
    \E t \in TaskIds : tasks[t].pc # "idle" /\ tasks[t].uri = d /\ tasks[t].origin = origin
Lists == {"userWords", "words"}

\* C1: a lookup of a document that follows a completed lookup of it, with no version
\* change, no move of the settings generation and no clear() in between, is a hit
\* and returns the computation the earlier lookup returned.
C1_RepeatedLookupReturnsStored ==
    \A d \in Uris :
        log[d].seen /\ log[d].repeat /\ ~log[d].prevPending
            => log[d].hit /\ log[d].comp = log[d].prevComp

\* C2: a lookup is a hit if and only if an entry was stored for the document and,
\* since then, its version did not change, the settings generation did not move
\* and the cache was not cleared.
C2_HitIffNothingInvalidated ==
    variant \in {"handler", "current"}
        => \A d \in Uris : log[d].seen => (log[d].hit <=> log[d].validAny)

\* C3: a lookup that arrives while the computation the previous lookup of the same
\* document and version started is still pending attaches to that computation:
\* it is a hit and no second resolver invocation starts.
C3_ConcurrentCallersAttach ==
    variant \in {"handler", "current"}
        => \A d \in Uris :
               log[d].seen /\ log[d].repeat /\ log[d].prevPending
                   => log[d].hit /\ log[d].comp = log[d].prevComp

\* C4: when a mutation command is about to return its success result, the settings
\* cache is empty, the loader's cached config files are cleared and every open
\* document has a re-validation started or scheduled by the command.
C4_MutationInvalidatesAndRevalidatesAll ==
    variant \in {"current", "threeCmd"}
        => \A c \in CmdIds :
               cmds[c].pc = "return"
                   => /\ settingsCache = EmptyCache
                      /\ cachedSettingsFiles = NoCached
                      /\ \A d \in documents :
                             InFlight(d, "command") \/ d \in Range(refreshes)

\* C5: a mutation command that returns success has persisted, then invalidated the
\* cache, then triggered the re-validation, and no lookup a command triggers is
\* served from the cache.
C5_PersistInvalidateRevalidate ==
    variant \in {"current", "addToDict", "addToConfig"}
        => /\ returned.result = "result"
                => returned.order = <<"persist", "invalidate", "revalidate">>
           /\ \A d \in Uris : log[d].seen /\ log[d].origin = "command" => ~log[d].hit

\* The command that holds the thread runs its next statement
RunOn ==
    \E c \in CmdIds : \/ CmdRead(c) \/ RefuseNotJson(c) \/ CmdModify(c) \/ CmdWrite(c)
                      \/ CmdRevalidate(c) \/ CmdReturn(c)

\* The validation pass t can resume, or the handler that holds the thread can run on
CanProceed(t) ==
    IF LoopIdle THEN ENABLED (ResolveConfig(t) \/ SettingsResolved(t) \/ Publish(t))
    ELSE ENABLED RunOn

\* C6: a config-file-change signal leaves the settings cache and the loader's cached
\* files empty and starts a validation pass for every open document; a pass it
\* started is never stuck (it can resume, or the handler holding the thread can run
\* on), and it ends only by publishing diagnostics for its document.
C6_SignalClearsAndRevalidatesAll ==
    /\ [][DidChangeWatchedFiles
              => /\ settingsCache' = EmptyCache
                 /\ cachedSettingsFiles' = NoCached
                 /\ \A d \in documents :
                        /\ log'[d].seen /\ ~log'[d].hit
                        /\ \E t \in TaskIds : /\ tasks'[t].uri = d
                                              /\ tasks'[t].origin = "signal"
                                              /\ tasks'[t].pc = "resolving"]_vars
    /\ [][\A d \in Uris :
              Cardinality({t \in TaskIds : tasks'[t].pc # "idle" /\ tasks'[t].uri = d
                                              /\ tasks'[t].origin = "signal"})
                < Cardinality({t \in TaskIds : tasks[t].pc # "idle" /\ tasks[t].uri = d
                                                  /\ tasks[t].origin = "signal"})
                  => sent'.has /\ sent'.uri = d /\ sent'.origin = "signal"]_vars
    /\ [](\A t \in TaskIds :
              tasks[t].pc # "idle" /\ tasks[t].origin = "signal" => CanProceed(t))

\* A signal arrived with two documents open and the second one got its diagnostics
C6_SignalRepublishedSecondDocument ==
    /\ sent.has /\ sent.origin = "signal" /\ sent.uri = "d2"
    /\ published["d1"].has

\* C7: two add-word commands can both return success while the file ends up without
\* the word of one of them; the write that drops words is always the write of a
\* command that, before it was suspended in searchForConfig, was told there is no
\* config file and so writes defaultSettings over the file created meanwhile.
C7_WordsDroppedOnlyAcrossTheSearch ==
    [][(\E a \in Lists : ~(Range(configFile[a]) \subseteq Range(configFile'[a])))
           => /\ variant = "current" /\ ~optConfig
              /\ configFile.exists
              /\ \E c \in CmdIds : cmds[c].pc = "write" /\ cmds[c].aliased]_vars

\* Two commands returned success and the word of one of them is not in the file
C7_LostUpdate ==
    /\ Cardinality(added) >= 2
    /\ \E p \in added : p[2] \notin Range(configFile[p[1]])
    /\ \E p \in added : p[2] \in Range(configFile[p[1]])
    /\ \A c \in CmdIds : cmds[c].pc = "idle"

\* C8: from the read of the config file to its write, every step is the command's
\* own next statement (the write succeeding, or throwing and ending the handler):
\* no other command, validation pass or notification handler runs, and the file
\* is not written by anyone else.
C8_ReadModifyWriteIsOneSection ==
    [][\A c \in CmdIds :
           cmds[c].pc \in {"modify", "write"}
               => /\ \/ /\ cmds'[c].pc = (IF cmds[c].pc = "modify" THEN "write"
                                          ELSE "revalidate")
                        /\ \A o \in CmdIds \ {c} : cmds'[o] = cmds[o]
                        /\ tasks' = tasks
                     \/ /\ cmds[c].pc = "write" /\ returned'.result = "failure"
                        /\ cmds' = Return(cmds, c) /\ tasks' = Awaited(tasks, c)
                        /\ configFile' = configFile
                  /\ events' = events /\ published' = published
                  /\ cmds[c].pc = "modify" => configFile' = configFile]_vars

\* A command is between its read and its write while another command waits for
\* searchForConfig and a validation pass is in flight
C8_SectionWithOthersWaiting ==
    \E c, o \in CmdIds :
        /\ cmds[c].pc = "modify"
        /\ cmds[o].pc \in {"searching", "searched"}
        /\ \E t \in TaskIds : tasks[t].pc # "idle"

\* C9: a validation pass that completes sends its diagnostics whatever the version
\* of the document has become: nothing is dropped and nothing is compared.
C9_EveryCompletedPassPublishes ==
    [][Cardinality(Checking') < Cardinality(Checking)
           => /\ sent'.has
              /\ \E t \in Checking : /\ sent'.uri = tasks[t].uri
                                     /\ sent'.ver = tasks[t].snap
              /\ published'[sent'.uri].ver = sent'.ver]_vars

\* Diagnostics of an older version were published over those of a newer one
C9_StalePublishedLast ==
    /\ sent.has
    /\ sent.ver < sent.over
    /\ published[sent.uri].ver = sent.ver
    /\ published[sent.uri].ver < version[sent.uri]

\* C10: a command of the server whose uri names no open document is answered with
\* an error and changes nothing: no file, no cache, no in-memory settings, no
\* validation pass, no pending command.
C10_UnknownDocumentChangesNothing ==
    [][returned'.command \in COMMANDS /\ ~returned'.docOpen
           => /\ returned'.result = "error" /\ returned'.message = "document"
              /\ UNCHANGED <<disk, memory, settingsCache, cachedSettingsFiles, tasks, cmds,
                             published, added>>]_vars

\* A command for a document that is not open was answered with the error
C10_UnknownDocumentRefused ==
    /\ returned.command \in COMMANDS /\ ~returned.docOpen
    /\ returned.result = "error" /\ returned.message = "document"

\* C11: a command of the server for an open document whose range yields no text is
\* answered with an error and changes nothing: no file, no in-memory word list,
\* no cache, no validation pass, no pending command.
C11_EmptyWordChangesNothing ==
    [][\A command \in COMMANDS, uri \in documents :
           ExecuteCommand(command, uri, "")
               => /\ returned'.result = "error" /\ returned'.message = "word"
                  /\ UNCHANGED <<disk, memory, settingsCache, cachedSettingsFiles, tasks,
                                 cmds, published, added>>]_vars

\* A command for an open document was answered that no word could be extracted
C11_EmptyWordRefused ==
    /\ returned.command \in COMMANDS /\ returned.docOpen
    /\ returned.result = "error" /\ returned.message = "word"

\* C12: every reply to an execute-command request is a {result} or an {error},
\* whatever the command name.
C12_ReplyIsResultOrError ==
    returned.command # "none" => returned.result \in {"result", "error"}

\* C14: no word list of the config file holds the same string twice.
C14_PersistedListsHaveNoDuplicates ==
    variant \in {"current", "threeCmd", "addToConfig"}
        => \A a \in Lists :
               \A i, j \in 1..Len(configFile[a]) :
                   configFile[a][i] = configFile[a][j] => i = j

\* C13: a command of main.ts returns success only after its write succeeded; a
\* write that fails ends the request as a failure with the file as it was, and
\* leaves the event loop free to take the next request.
C13_WriteFailureFailsTheRequest ==
    variant \in {"current", "threeCmd"}
        => /\ returned.result = "result" => "persist" \in Range(returned.order)
           /\ returned.result = "failure"
                => /\ "persist" \notin Range(returned.order)
                   /\ LoopIdle
                   /\ events < MaxEvents
                        => ENABLED (\E command \in Requests, uri \in Uris, word \in Words :
                                        ExecuteCommand(command, uri, word))

\* A write failed, the request failed, and the server can take another request
C13_RequestFailedServerServes ==
    /\ variant \in {"current", "threeCmd"}
    /\ returned.result = "failure" /\ returned.message = "write"
    /\ events < MaxEvents

MaxList == 2        \* entries of a word list in the file a call is given

\* words spelled out letter by letter, for the order of main.ts:243-244
Spelled == {<<"a">>, <<"A">>, <<"B">>, <<"b", "a">>, <<"a", "B">>}
SpelledLists == UNION {[1..n -> Spelled] : n \in 0..MaxList}

\* UTF-16 code unit of a letter (String.prototype.charCodeAt)
CodeUnit(ch) == CASE ch = "A" -> 65 [] ch = "B" -> 66 [] ch = "a" -> 97 [] ch = "b" -> 98

\* primary collation weight of a letter in locale 'en': what sensitivity 'base'
\* compares, case and accents left out
Primary(ch) == CASE ch \in {"a", "A"} -> 1 [] ch \in {"b", "B"} -> 2

ToLowerCase(ch) == CASE ch = "A" -> "a" [] ch = "B" -> "b" [] OTHER -> ch

\* -1, 0 or 1: lexicographic comparison of two sequences of numbers
RECURSIVE SeqCompare(_, _)
SeqCompare(s, t) ==
    IF s = <<>> THEN (IF t = <<>> THEN 0 ELSE -1)
    ELSE IF t = <<>> THEN 1
    ELSE IF Head(s) < Head(t) THEN -1
    ELSE IF Head(s) > Head(t) THEN 1
    ELSE SeqCompare(Tail(s), Tail(t))

\* a.localeCompare(b) with no locale options folded in: code unit order
CodeUnitCompare(a, b) ==
    SeqCompare([i \in 1..Len(a) |-> CodeUnit(a[i])], [i \in 1..Len(b) |-> CodeUnit(b[i])])

\* main.ts:243 a.localeCompare(b, 'en', {'sensitivity': 'base'})
LocaleCompare(a, b) ==
    SeqCompare([i \in 1..Len(a) |-> Primary(a[i])], [i \in 1..Len(b) |-> Primary(b[i])])

\* Array.prototype.sort is stable: w goes after every entry that does not compare above it
RECURSIVE Insert(_, _)
Insert(sorted, w) ==
    IF sorted = <<>> THEN <<w>>
    ELSE IF LocaleCompare(sorted[Len(sorted)], w) <= 0 THEN Append(sorted, w)
    ELSE Append(Insert(SubSeq(sorted, 1, Len(sorted) - 1), w), sorted[Len(sorted)])

\* main.ts:243-244 list?.sort((a, b) => a.localeCompare(b, 'en', {'sensitivity': 'base'}))
RECURSIVE Sort(_)
Sort(list) ==
    IF list = <<>> THEN <<>>
    ELSE Insert(Sort(SubSeq(list, 1, Len(list) - 1)), list[Len(list)])

\* main.ts:233-248, main.ts:453-467: what the command writes, from what it read
\* (currentSettings) or kept (userSettings)
Written(revision, currentSettings, command, word, sortWords) ==
    LET new == IF revision = "current"
               THEN AddWord(currentSettings, Attribute(command), word)
               ELSE Push(currentSettings, Attribute(command), word)
    IN  IF sortWords
        THEN [userWords |-> Sort(new.userWords), words |-> Sort(new.words)]
        ELSE new

Idle == call = NoCall /\ UNCHANGED <<variant, optConfig, jsonPath>>

AtRest ==
    UNCHANGED <<docs, settingsCache, settingsVersion, cachedSettingsFiles, disk, memory,
                lookups, cmds, running, published, added, events, returned, sent>>

\* one add-word command's modify and write, main.ts:233-248, main.ts:453-467
WriteConfig ==
    /\ Idle /\ AtRest
    /\ \E revision \in {"current", "threeCmd"},
          userWords \in SpelledLists, words \in SpelledLists, word \in Spelled,
          sortWords \in BOOLEAN,
          command \in {"AddToUserWordsConfig", "AddToWorkspaceWordsConfig"} :
           LET currentSettings == [userWords |-> userWords, words |-> words]
           IN  call' = [fn |-> "WriteConfig",
                        args |-> [revision |-> revision, currentSettings |-> currentSettings,
                                  command |-> command, word |-> word, sortWords |-> sortWords],
                        out |-> Written(revision, currentSettings, command, word, sortWords)]

\* ------------------------------------------------- the file a command writes
\* a path: where it points and whether it ends with ".json"
NoPath == [at |-> "none", json |-> FALSE]
GivenPaths == {[at |-> "given", json |-> j] : j \in BOOLEAN}
FoundPaths == {[at |-> "found", json |-> j] : j \in BOOLEAN}
RootFile == [at |-> "root", json |-> TRUE]
RootDotFile == [at |-> "rootDot", json |-> TRUE]

Refuse(message) == [reply |-> "error", message |-> message, path |-> NoPath, written |-> FALSE]
WriteTo(path) == [reply |-> "result", message |-> "added", path |-> path, written |-> TRUE]

\* main.ts:204-231: options.config, else the file searchForConfig found for the
\* document, else cspell.json in workspaceRoot
ConfigPath(config, found, workspaceRoot) ==
    LET configPath == IF config # NoPath THEN config ELSE found
        chosen == IF configPath # NoPath THEN configPath ELSE RootFile
    IN  IF configPath = NoPath /\ ~workspaceRoot THEN Refuse("root")
        ELSE IF ~chosen.json THEN Refuse("json")
        ELSE WriteTo(chosen)

\* main.ts:323-339: the first of settingsPath, ./cspell.json, ./.cspell.json that
\* tryReadSettingsFile reads, else settingsPath ?? './cspell.json'
MainSettingsPath(settingsPath, readable) ==
    LET fileCandidates == IF settingsPath # NoPath
                          THEN <<settingsPath, RootFile, RootDotFile>>
                          ELSE <<RootFile, RootDotFile>>
        read == SelectSeq(fileCandidates, LAMBDA file : file \in readable)
    IN  IF read # <<>> THEN Head(read)
        ELSE IF settingsPath # NoPath THEN settingsPath ELSE RootFile

\* main.ts:444-467: the command writes mainSettingsPath
StartupPath(settingsPath, readable) ==
    LET mainSettingsPath == MainSettingsPath(settingsPath, readable)
    IN  IF ~mainSettingsPath.json THEN Refuse("json") ELSE WriteTo(mainSettingsPath)

\* the file found without an explicit path: by the search from the document
\* (main.ts:208-209), or the first readable candidate of the working directory
Discovered(readable) ==
    IF RootFile \in readable THEN RootFile
    ELSE IF RootDotFile \in readable THEN RootDotFile ELSE NoPath

ChooseConfigPath ==
    /\ Idle /\ AtRest
    /\ \E config \in GivenPaths \cup {NoPath}, found \in FoundPaths \cup {NoPath},
          workspaceRoot \in BOOLEAN :
           call' = [fn |-> "ConfigPath",
                    args |-> [revision |-> "current", config |-> config, found |-> found,
                              workspaceRoot |-> workspaceRoot],
                    out |-> ConfigPath(config, found, workspaceRoot)]

ChooseMainSettingsPath ==
    /\ Idle /\ AtRest
    /\ \E settingsPath \in GivenPaths \cup {NoPath},
          readable \in SUBSET {[at |-> "given", json |-> TRUE], RootFile, RootDotFile} :
           /\ settingsPath = NoPath => [at |-> "given", json |-> TRUE] \notin readable
           /\ call' = [fn |-> "ConfigPath",
                        args |-> [revision |-> "threeCmd", config |-> settingsPath,
                                  found |-> Discovered(readable), workspaceRoot |-> TRUE],
                        out |-> StartupPath(settingsPath, readable)]

\* ------------------------------------------------------ the layers merged
\* A layer gives some keys a value; the value says which layer gave it.
Keys == {"language", "caseSensitive"}
Unset == "unset"
Layer(name, keys) == [k \in Keys |-> IF k \in keys THEN name ELSE Unset]
NoLayer == Layer("none", {})

\* cspell-lib mergeSettings(left, ...settings): a key takes the value of the last
\* argument that sets it
RECURSIVE MergeSettings(_)
MergeSettings(layers) ==
    IF layers = <<>> THEN NoLayer
    ELSE LET left == MergeSettings(SubSeq(layers, 1, Len(layers) - 1))
             right == layers[Len(layers)]
         IN  [k \in Keys |-> IF right[k] # Unset THEN right[k] ELSE left[k]]

\* main.ts:180
MergedCurrent(defaults, global, overrides, config) ==
    MergeSettings(<<defaults, global, overrides, config>>)

\* main.ts:412-416: the file when it exists, defaultSettings when it does not
MergedMainSettingsPath(defaults, overrides, exists, config) ==
    IF exists THEN MergeSettings(<<defaults, config>>)
    ELSE MergeSettings(<<defaults, overrides>>)

Merge ==
    /\ Idle /\ AtRest
    /\ \E d \in SUBSET Keys, g \in SUBSET Keys, o \in SUBSET Keys, p \in SUBSET Keys,
          revision \in {"current", "threeCmd"} :
           LET layers == [defaults |-> Layer("defaults", d), global |-> Layer("global", g),
                          overrides |-> Layer("overrides", o), config |-> Layer("config", p)]
           IN  call' = [fn |-> "Merge",
                        args |-> [revision |-> revision, layers |-> layers],
                        out |-> IF revision = "current"
                                THEN MergedCurrent(layers.defaults, layers.global,
                                                   layers.overrides, layers.config)
                                ELSE MergedMainSettingsPath(layers.defaults, layers.overrides,
                                                            TRUE, layers.config)]

\* the same with no file at mainSettingsPath, or no config found
MergeWithoutConfig ==
    /\ Idle /\ AtRest
    /\ \E d \in SUBSET Keys, g \in SUBSET Keys, o \in SUBSET Keys,
          revision \in {"current", "threeCmd"} :
           LET layers == [defaults |-> Layer("defaults", d), global |-> Layer("global", g),
                          overrides |-> Layer("overrides", o), config |-> NoLayer]
           IN  call' = [fn |-> "Merge",
                        args |-> [revision |-> revision, layers |-> layers],
                        out |-> IF revision = "current"
                                THEN MergedCurrent(layers.defaults, layers.global,
                                                   layers.overrides, NoLayer)
                                ELSE MergedMainSettingsPath(layers.defaults, layers.overrides,
                                                            FALSE, NoLayer)]

\* --------------------------------------------- resolution over a bad file
\* what is at the config path: nothing, a file that cannot be read, a file that
\* does not parse, a config file
FileStates == {"absent", "unreadable", "malformed", "ok"}
Bad == {"unreadable", "malformed"}

Raised == [raised |-> TRUE, merged |-> <<>>]
Completed(layers) == [raised |-> FALSE, merged |-> layers]

\* cspell-lib readSettings(path) / searchForConfig(docPath), whose code is not in
\* the repository: given a file it cannot use, the promise either rejects or
\* gives no settings; rejects says which
Loaded(file, rejects) ==
    IF file = "ok" THEN "config" ELSE IF rejects THEN "rejected" ELSE "nothing"

\* main.ts:166-180
GetSettingsForDocument(explicit, file, rejects) ==
    LET read == IF explicit THEN Loaded(file, rejects)
                ELSE IF file = "absent" THEN "nothing" ELSE Loaded(file, rejects)
        \* main.ts:169-174: try { readSettings(options.config) } catch { undefined }
        config == IF explicit /\ read = "rejected" THEN "nothing" ELSE read
    IN  IF config = "rejected" THEN Raised
        ELSE IF config = "config" THEN Completed(<<"defaults", "global", "overrides", "config">>)
        ELSE Completed(<<"defaults", "global", "overrides">>)

\* main.ts:411-416: fs.existsSync(mainSettingsPath), then readSettings unguarded
GetSettingsForMainSettingsPath(file, rejects) ==
    IF file = "absent" THEN Completed(<<"defaults", "overrides">>)
    ELSE LET read == Loaded(file, rejects)
         IN  IF read = "rejected" THEN Raised
             ELSE IF read = "config" THEN Completed(<<"defaults", "config">>)
             ELSE Completed(<<"defaults">>)

ResolveSettings ==
    /\ Idle /\ AtRest
    /\ \E explicit \in BOOLEAN, file \in FileStates, rejects \in BOOLEAN :
           call' = [fn |-> "Resolve",
                    args |-> [revision |-> "current", explicit |-> explicit, file |-> file,
                              rejects |-> rejects],
                    out |-> GetSettingsForDocument(explicit, file, rejects)]

ResolveMainSettingsPath ==
    /\ Idle /\ AtRest
    /\ \E explicit \in BOOLEAN, file \in FileStates, rejects \in BOOLEAN :
           call' = [fn |-> "Resolve",
                    args |-> [revision |-> "threeCmd", explicit |-> explicit, file |-> file,
                              rejects |-> rejects],
                    out |-> GetSettingsForMainSettingsPath(file, rejects)]

\* ------------------------------------------------- the code-action planner
MaxDiags == 2       \* diagnostics in one code-action request

\* positions of a small document: two lines, two columns three characters apart
Positions == {[line |-> l, character |-> c] : l \in {0, 1}, c \in {0, 3}}
NotAfter(p, q) == p.line < q.line \/ (p.line = q.line /\ p.character <= q.character)
Ranges == {range \in [start : Positions, end : Positions] : NotAfter(range.start, range.end)}
Undefined == [start |-> [line |-> -1, character |-> -1], end |-> [line |-> -1, character |-> -1]]
DiagLists == UNION {[1..n -> Ranges] : n \in 0..MaxDiags}

\* utils/range.mjs intersect: the part two ranges share, touching ranges included
Intersect(a, b) ==
    LET start == IF NotAfter(a.start, b.start) THEN b.start ELSE a.start
        end == IF NotAfter(a.end, b.end) THEN a.end ELSE b.end
    IN  IF NotAfter(start, end) THEN [start |-> start, end |-> end] ELSE Undefined

\* utils/range.mjs equal
Equal(a, b) == a.start = b.start /\ a.end = b.end

\* codeActions.mts:102-104 .reduce((a, b) => a && range.intersect(a, b), params.range)
RECURSIVE RangeIntersectDiags(_, _)
RangeIntersectDiags(a, diags) ==
    IF diags = <<>> THEN a
    ELSE RangeIntersectDiags(IF a = Undefined THEN Undefined ELSE Intersect(a, Head(diags)),
                             Tail(diags))

\* ---- the text of the document
WhiteSpace == {" ", "\n"}
LineTexts == {<<"a", "a", "a">>, <<"a", " ", "a">>, <<"a", "a", " ">>, <<"A", "a", "a">>,
              <<"A", "A", "A">>}
\* a document: its two lines
Documents == {<<first, <<"a", "a", "a">>>> : first \in LineTexts}

\* TextDocument.getText(range); the range spans lines 0 and 1 when it spans lines
GetText(doc, range) ==
    IF range.start.line = range.end.line
    THEN SubSeq(doc[range.start.line + 1], range.start.character + 1, range.end.character)
    ELSE SubSeq(doc[range.start.line + 1], range.start.character + 1,
                Len(doc[range.start.line + 1]))
         \o <<"\n">> \o SubSeq(doc[range.end.line + 1], 1, range.end.character)

\* String.prototype.trim
RECURSIVE Trim(_)
Trim(text) ==
    IF text = <<>> THEN text
    ELSE IF Head(text) \in WhiteSpace THEN Trim(Tail(text))
    ELSE IF text[Len(text)] \in WhiteSpace THEN Trim(SubSeq(text, 1, Len(text) - 1))
    ELSE text

\* codeActions.ts:179-185, codeActions.mts:224-230, codeActions.mts:415-421
IsWordLikeSelection(doc, range) ==
    IF range.start.line # range.end.line THEN FALSE
    ELSE LET text == GetText(doc, range)
             hasSpace == \E i \in 1..Len(Trim(text)) : Trim(text)[i] \in WhiteSpace
         IN  ~hasSpace

\* ---- case of letters (cspell-lib Text, whose code is not in the repository)
ToUpperCase(ch) == CASE ch = "a" -> "A" [] ch = "b" -> "B" [] OTHER -> ch
LowerLetters == {"a", "b", "local", "other"}
UpperLetters == {"A", "B"}
UpperCased(word) == [i \in 1..Len(word) |-> ToUpperCase(word[i])]
LowerCasedWord(word) == [i \in 1..Len(word) |-> ToLowerCase(word[i])]

\* Text.isLowerCase: one or more letters, all lower-case
IsLowerCase(word) == word # <<>> /\ \A i \in 1..Len(word) : word[i] \in LowerLetters
IsUpperCase(word) == word # <<>> /\ \A i \in 1..Len(word) : word[i] \in UpperLetters

\* Text.matchCase(example, word)
MatchCase(example, word) ==
    IF Len(example) >= 2 /\ example[1] \in UpperLetters /\ IsLowerCase(Tail(example))
    THEN IF word = <<>> THEN word
         ELSE <<ToUpperCase(word[1])>> \o LowerCasedWord(Tail(word))
    ELSE IF IsLowerCase(example) THEN LowerCasedWord(word)
    ELSE IF IsUpperCase(example) THEN UpperCased(word)
    ELSE IF example # <<>> /\ example[1] \in UpperLetters /\ word # <<>>
         THEN <<ToUpperCase(word[1])>> \o Tail(word)
    ELSE IF example # <<>> /\ example[1] \in LowerLetters /\ word # <<>>
         THEN <<ToLowerCase(word[1])>> \o Tail(word)
    ELSE word

\* ---- actions
NoTitle == <<>>
Preferred == <<" (preferred)">>
AddToUserWords == <<<<"Add to user words in config">>>>
AddToWorkspaceWords == <<<<"Add to workspace words in config">>>>
AddToDictrionary == <<<<"Add to dictrionary">>>>

\* crateWorkspaceAction(title, { changes: { [uri]: [TextEdit.replace(range, text)] } }, [diag], isPreferred)
CrateWorkspaceAction(title, range, text, isPreferred) ==
    [what |-> "replace", title |-> title, range |-> range, newText |-> text,
     isPreferred |-> isPreferred, command |-> "", name |-> "", path |-> ""]

\* { title, kind: QuickFix, diagnostics, command: { title, command, arguments: [arg] } }
CommandAction(title, command, range, name, path) ==
    [what |-> "command", title |-> title, range |-> range, newText |-> <<>>,
     isPreferred |-> FALSE, command |-> command, name |-> name, path |-> path]

\* codeActions.mts:178-203 directiveToTitle (the entries taken), directivesToHide
DirectiveToTitle ==
    [w \in {<<"disable-line">>} |->
        <<<<"cspell:">>, w, <<" - Do not spell check this line.">>>>]
DirectivesToHide == {<<"local">>}

\* the title without the mark of a preferred suggestion
SuggestionToTitlePlain(sug, issueType) == <<sug.word>>

\* codeActions.ts:166-168 (also codeActions.mts:398-400): the issue type is not looked at
SuggestionToTitleTs(sug, issueType) ==
    <<sug.word>> \o (IF sug.isPreferred THEN <<Preferred>> ELSE <<>>)

\* codeActions.mts:198-203
SuggestionToTitle(sug, issueType) ==
    IF issueType = "spelling" THEN SuggestionToTitleTs(sug, issueType)
    ELSE IF sug.word \in DirectivesToHide THEN NoTitle
    ELSE IF sug.word \in DOMAIN DirectiveToTitle THEN DirectiveToTitle[sug.word]
    ELSE <<<<"cspell:">>, sug.word>>

PlanRaised == [gate |-> TRUE, raised |-> TRUE, actions |-> <<>>]
Rejected == [gate |-> FALSE, raised |-> FALSE, actions |-> <<>>]
\* the list returned back to front
PlannedReversed(actions) ==
    [gate |-> TRUE, raised |-> FALSE,
     actions |-> [i \in 1..Len(actions) |-> actions[Len(actions) + 1 - i]]]
\* return actions
Planned(actions) == [gate |-> TRUE, raised |-> FALSE, actions |-> actions]

\* codeActions.ts:129-152, codeActions.mts:141-166: one diagnostic's quick fixes
GenCodeActionsForSuggestions(revision, doc, diag, sugs) ==
    LET srcWord == GetText(doc, diag.range)
        cased == [i \in 1..Len(sugs) |->
                     [word |-> IF IsLowerCase(sugs[i].word)
                               THEN MatchCase(srcWord, sugs[i].word) ELSE sugs[i].word,
                      isPreferred |-> sugs[i].isPreferred]]
        title(sug) == IF revision = "codeActions.mts"
                      THEN SuggestionToTitle(sug, diag.issueType)
                      ELSE SuggestionToTitleTs(sug, diag.issueType)
        made == [i \in 1..Len(sugs) |->
                    CrateWorkspaceAction(title(cased[i]), diag.range, cased[i].word,
                                         cased[i].isPreferred)]
    IN  SelectSeq(made, LAMBDA action : action.title # NoTitle)

\* codeActions.ts:110-160, codeActions.mts:118-170, codeActions.mts:346-392:
\* nothing for several diagnostics; generated is what getSuggestions gives when
\* the diagnostic carries no suggestions
HandlerCSpell(revision, doc, diags, generated) ==
    IF diags = <<>> \/ Len(diags) > 1 THEN Planned(<<>>)
    ELSE LET diag == diags[1]
         IN  IF ~diag.hasSuggestions /\ generated.fails THEN PlanRaised
             ELSE Planned(GenCodeActionsForSuggestions(
                              revision, doc, diag,
                              IF diag.hasSuggestions THEN diag.suggestions
                              ELSE generated.suggestions))

\* `!${dict.name}`
Negated(name) == CASE name = "d" -> "!d" [] name = "e" -> "!e"

\* the same without the test for `!${dict.name}`
MutableDictionariesNegationIgnored(settings) ==
    SelectSeq(settings.dictionaryDefinitions,
              LAMBDA dict : /\ dict.hasPath /\ dict.addWords = "true"
                            /\ dict.name \in Range(settings.dictionaries))

\* codeActions.ts:86-107: the definitions that are enabled and can take words
MutableDictionaries(settings) ==
    SelectSeq(settings.dictionaryDefinitions,
              LAMBDA dict : /\ dict.hasPath /\ dict.addWords = "true"
                            /\ dict.name \in Range(settings.dictionaries)
                            /\ Negated(dict.name) \notin Range(settings.dictionaries))

\* codeActions.ts:35-108
Handler(doc, range, diags, generated, settings) ==
    IF diags = <<>> THEN Rejected
    ELSE IF ~IsWordLikeSelection(doc, range) THEN Rejected
    ELSE LET fixes == HandlerCSpell("codeActions.ts", doc, diags, generated)
             mutableDictionaries == MutableDictionaries(settings)
         IN  IF fixes.raised THEN PlanRaised
             ELSE Planned(
                 fixes.actions
                 \o <<CommandAction(AddToUserWords, "AddToUserWordsConfig",
                                    diags[1].range, "", ""),
                      CommandAction(AddToWorkspaceWords, "AddToWorkspaceWordsConfig",
                                    diags[1].range, "", "")>>
                 \o [i \in 1..Len(mutableDictionaries) |->
                        CommandAction(<<<<"Add to ">>, <<mutableDictionaries[i].name>>,
                                        <<" dictionary">>>>,
                                      "AddToCustomDictionary", diags[1].range,
                                      mutableDictionaries[i].name,
                                      mutableDictionaries[i].path)])

\* codeActions.mts:89-116
HandlerMts(doc, range, diags, generated, settings) ==
    LET rangeIntersectDiags ==
            RangeIntersectDiags(range, [i \in 1..Len(diags) |-> diags[i].range])
    IN  IF diags = <<>> THEN Rejected
        ELSE IF \/ rangeIntersectDiags = Undefined
                \/ ~(Equal(range, rangeIntersectDiags) \/ IsWordLikeSelection(doc, range))
             THEN Rejected
        ELSE HandlerCSpell("codeActions.mts", doc, diags, generated)

\* codeActions.mts:295-344: reduce((a, _) => a, params.range) is params.range
HandlerAddToDictionary(doc, range, diags, generated, settings) ==
    IF diags = <<>> THEN Rejected
    ELSE IF ~IsWordLikeSelection(doc, range) THEN Rejected
    ELSE LET fixes == HandlerCSpell("codeActions.mts:251", doc, diags, generated)
         IN  IF fixes.raised THEN PlanRaised
             ELSE Planned(Append(fixes.actions,
                                 CommandAction(AddToDictrionary, "AddToDictionary",
                                               diags[1].range, "", "")))

\* ---- what a request holds
WholeLine == [start |-> [line |-> 0, character |-> 0], end |-> [line |-> 0, character |-> 3]]
Sug(word, isPreferred) == [word |-> word, isPreferred |-> isPreferred]
SuggestionLists ==
    {<<>>,
     <<Sug(<<"a", "b">>, TRUE)>>,
     <<Sug(<<"a", "b">>, FALSE), Sug(<<"b", "a">>, TRUE), Sug(<<"B", "a">>, FALSE)>>}
DirectiveLists ==
    {<<Sug(<<"local">>, FALSE)>>,
     <<Sug(<<"disable-line">>, FALSE), Sug(<<"other">>, FALSE)>>}
NoSuggestions == [fails |-> FALSE, suggestions |-> <<>>]
Generations ==
    {NoSuggestions, [fails |-> TRUE, suggestions |-> <<>>],
     [fails |-> FALSE, suggestions |-> <<Sug(<<"b", "b">>, FALSE)>>]}
Diag(range, issueType, hasSuggestions, suggestions) ==
    [range |-> range, issueType |-> issueType, hasSuggestions |-> hasSuggestions,
     suggestions |-> suggestions]
\* diagnostics anywhere in the document, each with one preferred suggestion
PlacedDiags == {Diag(r, "spelling", TRUE, <<Sug(<<"a", "b">>, TRUE)>>) : r \in Ranges}
\* diagnostics on the first line: spelling issues with or without suggestions of
\* their own, and directive issues (on lower-case text, see SomeRequest)
SpellingDiags ==
    {Diag(WholeLine, "spelling", TRUE, l) : l \in SuggestionLists}
        \cup {Diag(WholeLine, "spelling", FALSE, <<>>)}
DirectiveDiags == {Diag(WholeLine, "directive", TRUE, l) : l \in DirectiveLists}
ListsOf(S) == UNION {[1..n -> S] : n \in 0..MaxDiags}

\* settings.dictionaries and settings.dictionaryDefinitions
NoDictionaries == [dictionaries |-> <<>>, dictionaryDefinitions |-> <<>>]
Definitions ==
    {<<[name |-> "d", hasPath |-> p, path |-> IF p THEN "d.txt" ELSE "", addWords |-> w],
       [name |-> "e", hasPath |-> TRUE, path |-> "e.txt", addWords |-> "true"]>> :
        p \in BOOLEAN, w \in {"absent", "false", "true"}}
EnabledLists == {<<>>, <<"d">>, <<"e", "d">>, <<"d", "!d">>, <<"!d", "e">>, <<"e", "d", "!d">>}

Request(doc, range, diags, generated, settings) ==
    [doc |-> doc, range |-> range, diags |-> diags, generated |-> generated,
     settings |-> settings]

\* the requests drawn: any selection against diagnostics anywhere; the first line
\* selected against diagnostics of every kind; one diagnostic against every
\* dictionary configuration
CodeActionRequests ==
    {Request(doc, range, diags, NoSuggestions, NoDictionaries) :
        doc \in Documents, range \in Ranges, diags \in ListsOf(PlacedDiags)}
    \cup {Request(doc, WholeLine, diags, generated, NoDictionaries) :
        doc \in Documents, diags \in ListsOf(SpellingDiags), generated \in Generations}
    \cup {Request(<<<<"a", "a", "a">>, <<"a", "a", "a">>>>, WholeLine, diags, NoSuggestions,
                  NoDictionaries) : diags \in ListsOf(DirectiveDiags)}
    \cup {Request(<<<<"a", "a", "a">>, <<"a", "a", "a">>>>, WholeLine,
                  <<Diag(WholeLine, "spelling", TRUE, <<Sug(<<"a", "b">>, TRUE)>>)>>,
                  NoSuggestions,
                  [dictionaries |-> enabled, dictionaryDefinitions |-> definitions]) :
        enabled \in EnabledLists, definitions \in Definitions \cup {<<>>}}

CodeAction ==
    /\ Idle /\ AtRest
    /\ \E r \in CodeActionRequests :
           call' = [fn |-> "CodeAction", args |-> [revision |-> "codeActions.ts"] @@ r,
                    out |-> Handler(r.doc, r.range, r.diags, r.generated, r.settings)]

CodeActionMts ==
    /\ Idle /\ AtRest
    /\ \E r \in CodeActionRequests :
           call' = [fn |-> "CodeAction", args |-> [revision |-> "codeActions.mts"] @@ r,
                    out |-> HandlerMts(r.doc, r.range, r.diags, r.generated, r.settings)]

CodeActionAddToDictionary ==
    /\ Idle /\ AtRest
    /\ \E r \in CodeActionRequests :
           call' = [fn |-> "CodeAction", args |-> [revision |-> "codeActions.mts:251"] @@ r,
                    out |-> HandlerAddToDictionary(r.doc, r.range, r.diags, r.generated,
                                                   r.settings)]

\* ---- the suggestion generator (codeActions.ts:188-219)

MaxWordLength == 22
MaxCandidates == 6
WordLengthForLimitingSuggestions == 15
MaxNumberOfSuggestionsForLongWords == 1

\* a word of n characters; the generator looks at its length only
WordOfLength(n) == [i \in 1..n |-> "a"]
\* what the dictionary has for a word, best first; "+" joins the parts of a compound
Candidates ==
    {[word |-> w, isPreferred |-> FALSE, cost |-> 1] : w \in {<<"a">>, <<"a", "+", "b">>}}
CandidateLists == UNION {[1..n -> Candidates] : n \in 0..MaxCandidates}

\* SpellingDictionary.suggest of cspell-lib with includeTies false: the best
\* options.numSuggestions candidates
Suggest(ranked, options) ==
    SubSeq(ranked, 1, IF Len(ranked) < options.numSuggestions
                      THEN Len(ranked) ELSE options.numSuggestions)

\* s.word.replace(/[+]/g, '')
WithoutJoins(word) == SelectSeq(word, LAMBDA c : c # "+")

\* the generator without the rule for long words
GenSuggestionsUnlimited(word, ranked) ==
    LET found == Suggest(ranked, [numChanges |-> 3, numSuggestions |-> 5,
                                  ignoreCase |-> FALSE, includeTies |-> FALSE])
    IN  [i \in 1..Len(found) |-> [found[i] EXCEPT !.word = WithoutJoins(@)]]

\* codeActions.ts:194-214
GenSuggestions(word, ranked) ==
    LET numSuggestions == 5
        lengthOfWord == Len(word)
    IN  IF lengthOfWord > 20 THEN <<>>
        ELSE LET numSugs ==
                     IF lengthOfWord > WordLengthForLimitingSuggestions
                     THEN (IF MaxNumberOfSuggestionsForLongWords < numSuggestions
                           THEN MaxNumberOfSuggestionsForLongWords ELSE numSuggestions)
                     ELSE numSuggestions
                 found == Suggest(ranked, [numChanges |-> 3, numSuggestions |-> numSugs,
                                           ignoreCase |-> FALSE, includeTies |-> FALSE])
             IN  [i \in 1..Len(found) |-> [found[i] EXCEPT !.word = WithoutJoins(@)]]

\* codeActions.ts:216-218
GenWordSuggestions ==
    /\ Idle /\ AtRest
    /\ \E n \in 0..MaxWordLength, ranked \in CandidateLists :
           LET sugs == GenSuggestions(WordOfLength(n), ranked)
           IN  call' = [fn |-> "genWordSuggestions",
                        args |-> [word |-> WordOfLength(n), ranked |-> ranked],
                        out |-> [i \in 1..Len(sugs) |->
                                    [word |-> sugs[i].word,
                                     isPreferred |-> sugs[i].isPreferred]]]

\* ---- the validator's suggestions (part_000:80-84)

MaxExample == 3
\* the flagged text: letters of either case and a digit
Examples == UNION {[1..n -> {"a", "A", "1"}] : n \in 0..MaxExample}
SuggestedWords == {<<"b">>, <<"b", "a">>, <<"B", "a">>, <<"b", "1">>}
\* suggestions?: no list (<<>>) or one list (<<list>>) of up to two suggestions
OptionalSuggestions ==
    {<<>>} \cup {<<list>> : list \in UNION {[1..n -> {Sug(w, FALSE) : w \in SuggestedWords}] :
                                               n \in 0..2}}

\* the same with every suggestion re-cased, lower-case or not
HaveSuggestionsMatchCaseAll(example, suggestions) ==
    IF suggestions = <<>> THEN <<>>
    ELSE IF IsLowerCase(example) THEN suggestions
    ELSE <<[i \in 1..Len(suggestions[1]) |->
               [suggestions[1][i] EXCEPT !.word = MatchCase(example, @)]]>>

\* part_000:80-84
HaveSuggestionsMatchCase(example, suggestions) ==
    IF suggestions = <<>> THEN <<>>
    ELSE IF IsLowerCase(example) THEN suggestions
    ELSE <<[i \in 1..Len(suggestions[1]) |->
               IF IsLowerCase(suggestions[1][i].word)
               THEN [suggestions[1][i] EXCEPT !.word = MatchCase(example, @)]
               ELSE suggestions[1][i]]>>

\* part_000:71: the suggestions put in a diagnostic's data
MatchSuggestionsCase ==
    /\ Idle /\ AtRest
    /\ \E example \in Examples, suggestions \in OptionalSuggestions :
           call' = [fn |-> "haveSuggestionsMatchCase",
                    args |-> [example |-> example, suggestions |-> suggestions],
                    out |-> HaveSuggestionsMatchCase(example, suggestions)]

FnInit == Init /\ variant = "current" /\ ~optConfig /\ configFile = NoFile /\ jsonPath

FnNext ==
    \/ WriteConfig
    \/ ChooseConfigPath
    \/ ChooseMainSettingsPath
    \/ Merge
    \/ MergeWithoutConfig
    \/ ResolveSettings
    \/ ResolveMainSettingsPath
    \/ CodeAction
    \/ CodeActionMts
    \/ CodeActionAddToDictionary
    \/ GenWordSuggestions
    \/ MatchSuggestionsCase

FnSpec == FnInit /\ [][FnNext]_vars

\* a list is in case-insensitive lexicographic order: of two entries the earlier one,
\* lower-cased, is not above the later one, lower-cased, letter by letter
LowerCased(w) == [i \in 1..Len(w) |-> CodeUnit(ToLowerCase(w[i]))]
InOrder(list) ==
    \A i, j \in 1..Len(list) :
        i < j => SeqCompare(LowerCased(list[i]), LowerCased(list[j])) <= 0

\* C16: with sortWords on, both userWords and words of the file an add-word
\* command writes are in case-insensitive lexicographic order, whichever of the
\* two lists the word was added to.
C16_BothListsWrittenInOrder ==
    call.fn = "WriteConfig" /\ call.args.revision \in {"current", "threeCmd"} /\ call.args.sortWords
        => InOrder(call.out.userWords) /\ InOrder(call.out.words)

\* a word was added to userWords, sorting on, and the other list, read out of
\* order, was written in order
C16_OtherListSortedToo ==
    /\ call.fn = "WriteConfig" /\ call.args.sortWords
    /\ call.args.command = "AddToUserWordsConfig"
    /\ ~InOrder(call.args.currentSettings.words)
    /\ InOrder(call.out.words)
    /\ Len(call.out.userWords) = Len(call.args.currentSettings.userWords) + 1
    /\ InOrder(call.out.userWords)

\* C17: an add-word config command writes the explicitly supplied config path
\* when one was given, otherwise the config file discovered, otherwise a new
\* cspell.json in the workspace root, and returns an error without writing only
\* when none of the three can be determined.
C17_WritesTheStatedPath ==
    call.fn = "ConfigPath"
        => LET stated == IF call.args.config # NoPath THEN call.args.config
                         ELSE IF call.args.found # NoPath THEN call.args.found
                         ELSE IF call.args.workspaceRoot THEN RootFile ELSE NoPath
           IN  IF stated = NoPath
               THEN call.out.reply = "error" /\ ~call.out.written
               ELSE call.out.reply = "result" /\ call.out.written /\ call.out.path = stated

\* C18: each key of the effective settings has the value of the last layer that
\* sets it in the order built-in defaults, global user config, initialization
\* overrides, project config.
C18_LaterLayerWins ==
    call.fn = "Merge"
        => \A k \in Keys :
               call.out[k] = (IF call.args.layers.config[k] # Unset THEN "config"
                              ELSE IF call.args.layers.overrides[k] # Unset THEN "overrides"
                              ELSE IF call.args.layers.global[k] # Unset THEN "global"
                              ELSE IF call.args.layers.defaults[k] # Unset THEN "defaults"
                              ELSE Unset)

\* C19: settings resolution never raises; over a config file that cannot be read
\* or does not parse, supplied or found by search, it completes as if the file
\* were absent, with the remaining layers.
C19_BadConfigIsAbsent ==
    call.fn = "Resolve"
        => /\ ~call.out.raised
           /\ call.args.file \in Bad => call.out.merged = <<"defaults", "global", "overrides">>

\* C20: the planner returns no action whenever the selection spans more than one
\* line, also when the selection is exactly the range of a diagnostic.
C20_MultiLineSelectionPlansNothing ==
    call.fn = "CodeAction" /\ call.args.range.start.line # call.args.range.end.line
        => call.out.actions = <<>>

\* what the selection of the request holds
Selected == GetText(call.args.doc, call.args.range)
SelectionIsADiagnostic ==
    \E i \in 1..Len(call.args.diags) : call.args.diags[i].range = call.args.range

\* C21: the planner returns no action whenever the selected text holds a white
\* space character and the selection is not exactly the range of a diagnostic.
C21_WhiteSpaceSelectionPlansNothing ==
    /\ call.fn = "CodeAction"
    /\ \E i \in 1..Len(Selected) : Selected[i] \in WhiteSpace
    /\ ~SelectionIsADiagnostic
    => call.out.actions = <<>>

\* C22: a request that carries diagnostics passes the selection gate exactly if
\* its selection is the range of one of them or is word-like; so a selection that
\* is a diagnostic's range passes also when its text is not word-like.
C22_GateIsEqualOrWordLike ==
    call.fn = "CodeAction" /\ call.args.diags # <<>>
        => (call.out.gate
                <=> \/ SelectionIsADiagnostic
                    \/ IsWordLikeSelection(call.args.doc, call.args.range))

ReplaceActions == SelectSeq(call.out.actions, LAMBDA action : action.what = "replace")
Commands == [i \in 1..Len(call.out.actions) |-> call.out.actions[i].command]

\* C23: when the request carries more than one diagnostic and passes the gate, the
\* planner returns no replacement action and still returns the add-to-user-words
\* and the add-to-workspace-words action.
C23_SeveralDiagnosticsPlanGenericOnly ==
    /\ call.fn = "CodeAction"
    /\ call.args.revision \in {"codeActions.ts", "codeActions.mts"}
    /\ Len(call.args.diags) > 1 /\ call.out.gate
    => /\ ReplaceActions = <<>>
       /\ "AddToUserWordsConfig" \in Range(Commands)
       /\ "AddToWorkspaceWordsConfig" \in Range(Commands)

\* C24: the list the planner returns holds the replacement actions first, then
\* add-to-user-words, then add-to-workspace-words, then the per-dictionary
\* actions; the replacements of a diagnostic that carries suggestions come in the
\* order of the suggestions.
C24_OutputOrder ==
    /\ call.fn = "CodeAction" /\ call.args.revision = "codeActions.ts"
    /\ call.out.gate /\ ~call.out.raised
    => LET actions == call.out.actions
           n == Len(ReplaceActions)
       IN  /\ Len(actions) >= n + 2
           /\ \A i \in 1..n : actions[i].what = "replace"
           /\ actions[n + 1].command = "AddToUserWordsConfig"
           /\ actions[n + 2].command = "AddToWorkspaceWordsConfig"
           /\ \A i \in (n + 3)..Len(actions) : actions[i].command = "AddToCustomDictionary"
           /\ Len(call.args.diags) = 1 /\ call.args.diags[1].hasSuggestions
                  => /\ n = Len(call.args.diags[1].suggestions)
                     /\ \A i \in 1..n :
                            LowerCasedWord(actions[i].newText)
                                = LowerCasedWord(call.args.diags[1].suggestions[i].word)

\* a request answered with replacement, generic and per-dictionary actions
C24_AllThreeKindsPlanned ==
    /\ call.fn = "CodeAction" /\ call.args.revision = "codeActions.ts"
    /\ Len(call.out.actions) = 5
    /\ call.out.actions[1].what = "replace"
    /\ call.out.actions[5].command = "AddToCustomDictionary"

\* the suggestions the one diagnostic of the request is answered from
Suggestions ==
    IF call.args.diags[1].hasSuggestions THEN call.args.diags[1].suggestions
    ELSE call.args.generated.suggestions
OneSpellingDiagnosticPlanned ==
    /\ call.fn = "CodeAction" /\ call.args.revision = "codeActions.ts"
    /\ call.out.gate /\ ~call.out.raised
    /\ Len(call.args.diags) = 1 /\ call.args.diags[1].issueType = "spelling"
\* the i-th replacement replaces the diagnostic's range with the i-th suggested
\* word, possibly re-cased, and is titled with the word it puts
ReplacesWithSuggestion(i) ==
    LET action == ReplaceActions[i]
    IN  /\ action.range = call.args.diags[1].range
        /\ LowerCasedWord(action.newText) = LowerCasedWord(Suggestions[i].word)
        /\ ~IsLowerCase(Suggestions[i].word) => action.newText = Suggestions[i].word
        /\ action.title[1] = action.newText

OneDirectiveDiagnosticPlanned ==
    /\ call.fn = "CodeAction" /\ call.out.gate /\ ~call.out.raised
    /\ Len(call.args.diags) = 1 /\ call.args.diags[1].issueType = "directive"
\* the titles of the actions that put the directive in the document
TitlesFor(directive) ==
    {ReplaceActions[i].title : i \in {j \in 1..Len(ReplaceActions) :
                                        ReplaceActions[j].newText = directive}}
Contains(title, part) == \E i \in 1..Len(title) : title[i] = part

\* C26: for a directive issue, the suggestion "local" produces no action, the
\* suggestion "disable-line" produces an action whose title contains
\* "disable-line", and a directive that is not listed gets the generic title
\* made of "cspell:" and its raw name.
C26_DirectiveTitles ==
    OneDirectiveDiagnosticPlanned
        => \A i \in 1..Len(Suggestions) :
               LET directive == Suggestions[i].word
               IN  /\ directive = <<"local">> => TitlesFor(directive) = {}
                   /\ directive = <<"disable-line">>
                          => \E title \in TitlesFor(directive) :
                                 Contains(title, <<"disable-line">>)
                   /\ directive \notin DirectivesToHide \cup DOMAIN DirectiveToTitle
                          => TitlesFor(directive) = {<<<<"cspell:">>, directive>>}

\* the "Add to <name> dictionary" actions returned for a dictionary definition
OfferedFor(dict) ==
    SelectSeq(call.out.actions,
              LAMBDA action : /\ action.command = "AddToCustomDictionary"
                              /\ action.name = dict.name)
Enabled_(name) == \E i \in 1..Len(call.args.settings.dictionaries) :
                      call.args.settings.dictionaries[i] = name

\* C27: an "Add to <name> dictionary" action is returned for a dictionary
\* definition exactly when its name is among the enabled dictionaries, "!name" is
\* not, it declares a path and its addWords flag is true; then there is exactly
\* one, carrying the definition's name and path.
C27_OneActionPerMutableDictionary ==
    /\ call.fn = "CodeAction" /\ call.args.revision = "codeActions.ts"
    /\ call.out.gate /\ ~call.out.raised
    => /\ \A i \in 1..Len(call.args.settings.dictionaryDefinitions) :
              LET dict == call.args.settings.dictionaryDefinitions[i]
              IN  IF /\ Enabled_(dict.name) /\ ~Enabled_(Negated(dict.name))
                     /\ dict.hasPath /\ dict.addWords = "true"
                  THEN /\ Len(OfferedFor(dict)) = 1
                       /\ OfferedFor(dict)[1].path = dict.path
                       /\ OfferedFor(dict)[1].title
                              = <<<<"Add to ">>, <<dict.name>>, <<" dictionary">>>>
                  ELSE OfferedFor(dict) = <<>>
       /\ \A j \in 1..Len(call.out.actions) :
              call.out.actions[j].command = "AddToCustomDictionary"
                  => \E i \in 1..Len(call.args.settings.dictionaryDefinitions) :
                         call.args.settings.dictionaryDefinitions[i].name
                             = call.out.actions[j].name

\* of two definitions that can take words, the one enabled and not negated is
\* offered and the one enabled and negated is not
C27_NegatedDictionaryNotOffered ==
    /\ call.fn = "CodeAction" /\ call.args.revision = "codeActions.ts"
    /\ call.out.gate /\ ~call.out.raised
    /\ call.args.settings.dictionaries = <<"e", "d", "!d">>
    /\ Len(call.args.settings.dictionaryDefinitions) = 2
    /\ \A i \in 1..2 : /\ call.args.settings.dictionaryDefinitions[i].hasPath
                        /\ call.args.settings.dictionaryDefinitions[i].addWords = "true"
    /\ \E j \in 1..Len(call.out.actions) :
           /\ call.out.actions[j].name = "e" /\ call.out.actions[j].path = "e.txt"
    /\ \A j \in 1..Len(call.out.actions) : call.out.actions[j].name # "d"

\* C28: when computing the suggestions of a diagnostic fails, the request that
\* passed the gate still returns a list of actions, and the list holds the
\* add-to-user-words and the add-to-workspace-words action.
C28_SuggestionFailureIsIsolated ==
    /\ call.fn = "CodeAction" /\ call.args.revision = "codeActions.ts"
    /\ call.out.gate /\ call.args.generated.fails
    => /\ ~call.out.raised
       /\ \E i \in 1..Len(Commands) : Commands[i] = "AddToUserWordsConfig"
       /\ \E i \in 1..Len(Commands) : Commands[i] = "AddToWorkspaceWordsConfig"

\* C29: the generator returns no suggestion for a word of more than 20
\* characters, at most 1 for a word of 16 to 20 characters and at most 5 for a
\* word of 15 characters or fewer.
C29_SuggestionsAreCapped ==
    call.fn = "genWordSuggestions"
        => LET n == Len(call.args.word)
           IN  /\ n > 20 => call.out = <<>>
               /\ n \in 16..20 => Len(call.out) <= 1
               /\ n <= 15 => Len(call.out) <= 5

\* a word of 16 characters with six candidates gets the best one alone
C29_LongWordGetsOne ==
    /\ call.fn = "genWordSuggestions"
    /\ Len(call.args.word) = 16 /\ Len(call.args.ranked) = 6
    /\ Len(call.out) = 1
    /\ call.out[1].word = WithoutJoins(call.args.ranked[1].word)

\* a capitalized example: an upper-case letter followed by lower-case letters
Capitalized(example) ==
    /\ Len(example) >= 2 /\ example[1] \in UpperLetters
    /\ \A i \in 2..Len(example) : example[i] \in LowerLetters
\* what the claim wants of a candidate word put against the flagged example
FollowsCase(example, word, result) ==
    /\ IsLowerCase(example) \/ ~IsLowerCase(word) => result = word
    /\ IsLowerCase(word) /\ IsUpperCase(example)
           => result = [i \in 1..Len(word) |-> ToUpperCase(word[i])]
    /\ IsLowerCase(word) /\ Capitalized(example)
           => result = [i \in 1..Len(word) |-> IF i = 1 THEN ToUpperCase(word[i])
                                                ELSE word[i]]

\* C30: a suggestion that is all lower-case comes out all upper-case against an
\* all upper-case example and capitalized against a capitalized one; it comes
\* out unchanged when the example is lower-case or the suggestion is not all
\* lower-case. This holds of the validator's suggestions and of the words the
\* planner's replacements put.
C30_SuggestionsFollowCase ==
    /\ call.fn = "haveSuggestionsMatchCase" /\ call.args.suggestions # <<>>
           => /\ Len(call.out) = 1
              /\ Len(call.out[1]) = Len(call.args.suggestions[1])
              /\ \A i \in 1..Len(call.out[1]) :
                     /\ FollowsCase(call.args.example, call.args.suggestions[1][i].word,
                                    call.out[1][i].word)
                     /\ call.out[1][i].isPreferred
                            = call.args.suggestions[1][i].isPreferred
    /\ OneSpellingDiagnosticPlanned
           => \A i \in 1..Len(ReplaceActions) :
                  FollowsCase(GetText(call.args.doc, call.args.diags[1].range),
                              Suggestions[i].word, ReplaceActions[i].newText)

\* "ba" suggested for "AA" comes out "BA", and "Ba" next to it stays
C30_UpperCaseExample ==
    /\ call.fn = "haveSuggestionsMatchCase"
    /\ call.args.example = <<"A", "A">>
    /\ call.args.suggestions = <<<<Sug(<<"b", "a">>, FALSE), Sug(<<"B", "a">>, FALSE)>>>>
    /\ call.out = <<<<Sug(<<"B", "A">>, FALSE), Sug(<<"B", "a">>, FALSE)>>>>

\* C31: once a command has written the config file and cleared the settings
\* cache, no lookup is served from the cache with settings resolved from the
\* file as it was before that write, however a resolution in flight interleaves
\* with the clear.
C31_NoHitOlderThanTheClear ==
    variant = "current" /\ (\A c \in CmdIds : cmds[c].pc # "revalidate")
        => \A d \in Uris :
               log[d].seen /\ log[d].hit => settingsCache[d].value.gen = fileGen

\* C32: every command name carried by an action the planner returns is one of
\* the commands the server advertises, and a request for it (open document, a
\* word under the range) is taken up by the handler, not answered with nothing.
C32_PlannedCommandsAreServed ==
    call.fn = "CodeAction" /\ call.args.revision = "codeActions.ts"
        => \A i \in 1..Len(call.out.actions) :
               call.out.actions[i].what = "command"
                   => /\ call.out.actions[i].command \in COMMANDS
                      /\ ENABLED (/\ ExecuteCommand(call.out.actions[i].command, "d1", "w1")
                                  /\ returned'.result # "undefined")

\* C33: no step of the server changes the overrides received at initialization
\* (defaultSettings), whatever the commands it runs, the ones that create the
\* config file included.
C33_OverridesNeverChange ==
    [][defaultSettings' = defaultSettings]_vars

\* C34: a config command of main.ts whose config path does not end in ".json"
\* is answered with an error; the step that answers changes no file, no cache,
\* no in-memory settings and starts no validation pass, and no step of any
\* command of such a server writes the file, changes the settings cache or
\* starts a pass.
C34_NotJsonIsRefused ==
    /\ [](variant \in {"current", "threeCmd"} /\ ~jsonPath
              /\ returned.command \in ConfigCommands \cap COMMANDS
              => returned.result = "error")
    /\ [][returned'.message = "json"
              => /\ returned'.result = "error"
                 /\ UNCHANGED <<disk, memory, settingsCache, cachedSettingsFiles, tasks,
                                published, added>>]_vars
    /\ [][~jsonPath /\ variant \in {"current", "threeCmd"} /\ cmds' # cmds
              => UNCHANGED <<configFile, fileGen, memory, settingsCache, tasks, published,
                             added>>]_vars

\* a command that found a config file whose name does not end in ".json" was
\* refused, and the settings stored for the document are still in the cache
C34_FoundFileNotJsonRefused ==
    /\ variant = "current" /\ ~optConfig /\ ~jsonPath
    /\ returned.command \in ConfigCommands
    /\ returned.result = "error" /\ returned.message = "json"
    /\ settingsCache["d1"].has
    /\ configFile = InitialFile

\* a validation pass that a command or a refresh started shows up in this step
CommandPassStarted ==
    \E d \in Uris : log'[d].seen /\ log'[d].origin = "command"

\* C35: the add-to-custom-dictionary command appends the word, asks for the
\* refresh and starts no validation pass; its success result is sent while a
\* refresh is still awaited; and a pass for its document starts in the step
\* that ends a refresh, never before.
C35_ReturnsBeforeRefreshRevalidatesAfter ==
    /\ [][dictFile' # dictFile /\ variant = "threeCmd"
              => /\ \E c \in CmdIds : /\ cmds[c].command = "AddToCustomDictionary"
                                      /\ refreshes' = Append(refreshes, cmds[c].uri)
                 /\ tasks' = tasks /\ ~CommandPassStarted
                 /\ returned'.result = "none"]_vars
    /\ [](returned.command = "AddToCustomDictionary" /\ returned.result = "result"
              => refreshes # <<>>)
    /\ [][CommandPassStarted /\ variant = "threeCmd" /\ fileGen' = fileGen
              => /\ refreshes # <<>> /\ refreshes' = Tail(refreshes)
                 /\ log'[Head(refreshes)].seen
                 /\ returned'.result = "none"]_vars

\* the success result of the command was sent with its refresh still awaited
\* and no validation pass in flight
C35_RepliedWhileRefreshing ==
    /\ returned.command = "AddToCustomDictionary" /\ returned.result = "result"
    /\ refreshes # <<>>
    /\ \A t \in TaskIds : tasks[t].pc = "idle"

\* C36: add-to-custom-dictionary commands that arrive while a refresh is still
\* awaited share it: the server never awaits more than one refresh of the
\* dictionary cache.
C36_RefreshesCoalesce ==
    variant = "threeCmd" => Len(refreshes) <= 1

\* the validation passes that content changes of d started and that have not
\* published yet
ChangePasses(d) ==
    Cardinality({t \in TaskIds : /\ tasks[t].pc # "idle" /\ tasks[t].uri = d
                                 /\ tasks[t].origin = "change"})

\* this step publishes the diagnostics of a pass that a content change of d started
PublishesChange(d) == sent'.has /\ sent'.uri = d /\ sent'.origin = "change"

\* C37: a content change of an open document starts one validation pass for it
\* and takes none away; a pass leaves only by publishing the diagnostics of its
\* uri, one pass at a time; and again and again no pass is left in flight, so
\* every pass a content change started publishes in the end.
C37_EveryChangePublishes ==
    /\ [][\A d \in Uris :
              variant = "current" /\ d \in documents /\ version'[d] # version[d]
                  => /\ ChangePasses(d)' = ChangePasses(d) + 1
                     /\ \A e \in Uris \ {d} : ChangePasses(e)' = ChangePasses(e)]_vars
    /\ [][\A d \in Uris :
              variant = "current" /\ ChangePasses(d)' < ChangePasses(d)
                  => ChangePasses(d)' = ChangePasses(d) - 1 /\ PublishesChange(d)]_vars
    /\ []<>(variant = "current" => \A d \in Uris : ChangePasses(d) = 0)

\* two content changes of d1 are in flight at once, the first one's pass
\* already with the engine when the second arrived
C37_EditDuringValidation ==
    /\ variant = "current"
    /\ ChangePasses("d1") = 2
    /\ tasks[1].pc = "checking" /\ tasks[1].snap < version["d1"]

\* C38: in the revision that stores the settings with
\* settingsCache[uri] = settings the map never holds an entry, no lookup finds
\* one, and every lookup calls the resolver anew.
C38_PropertyStoreBypassesTheCache ==
    variant = "addToDict"
        => /\ settingsCache = EmptyCache
           /\ \A d \in Uris :
                  log[d].seen => /\ ~log[d].hit
                                 /\ log[d].comp = nextComp
                                 /\ log[d].comp > log[d].prevComp

\* d1 was looked up again with no edit, no clear and no command since its last
\* lookup, whose resolution had settled and stored: the lookup missed all the same
C38_RepeatedLookupMisses ==
    /\ variant = "addToDict"
    /\ log["d1"].seen /\ log["d1"].repeat /\ ~log["d1"].prevPending
    /\ log["d1"].validAny
    /\ ~log["d1"].hit

\* C39: the quick fixes that codeActions.ts plans for one diagnostic never
\* include two replacements with the same new text.
C39_NoDuplicateReplacements ==
    call.fn = "CodeAction" /\ call.args.revision = "codeActions.ts"
        => \A i, j \in 1..Len(call.out.actions) :
               /\ i < j
               /\ call.out.actions[i].what = "replace"
               /\ call.out.actions[j].what = "replace"
               /\ call.out.actions[i].range = call.out.actions[j].range
               => call.out.actions[i].newText # call.out.actions[j].newText

====
